---- MODULE Spec2Model ----
(***************************************************************************)
(* State-machine model of the aiembodied Home Assistant integration:       *)
(*   - AutonomyController   (custom_components/aiembodied/autonomy.py)     *)
(*   - ExposureController   (custom_components/aiembodied/exposure.py)     *)
(*   - the invoke_service handler and the entry setup/unload               *)
(*                          (custom_components/aiembodied/__init__.py)     *)
(* One coroutine call is one task; a task takes one step per stretch of    *)
(* code between two suspension points (host persistence write, host        *)
(* notification call, HTTP post, host command execution).                  *)
(***************************************************************************)
EXTENDS Naturals, Sequences, FiniteSets, Bags

\* ------------------------------------------------------------------ bounds

\* Number of coroutine calls that may be in flight at once.
MaxTasks == 2
\* Cap on consecutive_failures (record_failure is not called beyond it).
MaxFailures == 4
\* Cap on the length of the listener registry and of the pause-callback registry.
MaxRegistry == 2
\* Cap on the length of the exposure lists the filter is compiled from.
MaxPatterns == 2
\* Caps on the unsubscribe handles issued and on the calls made of one handle.
MaxHandles == 3
MaxInvocations == 2

\* ------------------------------------------------------- program constants

\* const.py: AUTONOMY_FAILURE_THRESHOLD
AUTONOMY_FAILURE_THRESHOLD == 3
\* const.py: OPTIONS_AUTONOMY_PAUSED, OPTIONS_DEBUG
OPTIONS_AUTONOMY_PAUSED == "autonomy_paused"
OPTIONS_DEBUG == "debug"

\* The config entry's id.
ENTRY_ID == "entry-1"

\* Python's None where a string is expected.
None == "None"

\* ----------------------------------------------------------- input domains

\* failure_threshold arguments given to the constructor: 0 (clamped to 1), the
\* value the unit test uses, and the default.
ThresholdArgs == {0, 2, AUTONOMY_FAILURE_THRESHOLD}
\* State listeners and observer pause callbacks that may be registered.
ListenerIds == {"L1", "L2"}
ProbeCallbacks == {"cb1", "cb2", "cb3"}
\* Listeners whose call raises an exception.
RaisingListeners == {"L2"}
\* Pause callbacks whose call raises an exception, and pause callbacks that
\* return a coroutine whose await raises one.
RaisingCallbacks == {"cb2"}
RaisingCoroutineCallbacks == {"cb3"}
\* The pause callback the entry setup registers: ExposureController.async_set_paused.
ExposureCallback == "exposure"
\* str(AIEmbodiedClientError) as api_client.py raises it.
ClientErrorText == "Error communicating with AI endpoint"
\* <<source, message>> arguments of record_failure calls made on the controller.
FailureArgs == { <<"event_forward", ClientErrorText>>, <<"action_result", "failure">> }
\* Stored config-entry options the model starts from (a dict: a function on its keys).
StoredOptions ==
    { [k \in {OPTIONS_DEBUG} |-> TRUE] }
    \cup { [k \in {OPTIONS_DEBUG, OPTIONS_AUTONOMY_PAUSED} |-> IF k = OPTIONS_DEBUG THEN TRUE ELSE p] :
             p \in BOOLEAN }

\* ------------------------------------------------------------------ strings
\* A string is a sequence of one-character strings.

LowerChar(c) == CASE c = "A" -> "a" [] c = "B" -> "b" [] c = "X" -> "x" [] OTHER -> c

lower(s) == [i \in 1..Len(s) |-> LowerChar(s[i])]

IsSpace(c) == c = " "

RECURSIVE lstrip(_)
lstrip(s) == IF s # <<>> /\ IsSpace(Head(s)) THEN lstrip(Tail(s)) ELSE s

RECURSIVE rstrip(_)
rstrip(s) == IF s # <<>> /\ IsSpace(s[Len(s)]) THEN rstrip(SubSeq(s, 1, Len(s) - 1)) ELSE s

strip(s) == rstrip(lstrip(s))

endswith(s, suf) ==
    Len(s) >= Len(suf) /\ SubSeq(s, Len(s) - Len(suf) + 1, Len(s)) = suf

contains(s, c) == \E i \in 1..Len(s) : s[i] = c

\* s.split(c, 1)[0]
split_first(s, c) ==
    IF contains(s, c)
    THEN LET i == CHOOSE k \in 1..Len(s) : s[k] = c /\ \A j \in 1..(k - 1) : s[j] # c
         IN SubSeq(s, 1, i - 1)
    ELSE s

\* -------------------------------------------------------- exposure filters

\* _ExposureFilters.from_iterable: one pass over the configured patterns.
RECURSIVE from_iterable_loop(_, _, _)
from_iterable_loop(exposure, entities, domains) ==
    IF exposure = <<>> THEN [entities |-> entities, domains |-> domains]
    ELSE LET normalized == lower(strip(Head(exposure)))
             rest == Tail(exposure)
         IN IF normalized = <<>> THEN from_iterable_loop(rest, entities, domains)
            ELSE IF endswith(normalized, <<".", "*">>)
                 THEN from_iterable_loop(rest, entities,
                          domains \cup {SubSeq(normalized, 1, Len(normalized) - 2)})
            ELSE IF ~contains(normalized, ".")
                 THEN from_iterable_loop(rest, entities, domains \cup {normalized})
            ELSE from_iterable_loop(rest, entities \cup {normalized}, domains)

from_iterable(exposure) == from_iterable_loop(exposure, {}, {})

\* allows that compares the identifier as it is written
allows_case_sensitive(f, entity_id) ==
    IF entity_id \in f.entities THEN TRUE
    ELSE split_first(entity_id, ".") \in f.domains

\* _ExposureFilters.allows
allows(f, entity_id) ==
    LET entity_lower == lower(entity_id)
    IN IF entity_lower \in f.entities THEN TRUE
       ELSE split_first(entity_lower, ".") \in f.domains

\* Exposure lists a config entry may carry (entry.data[CONF_EXPOSURE]).
ExposureConfigs ==
    { <<>>,
      << <<" ">> >>,
      << <<"a", ".", "x">> >>,
      << <<" ", "B", ".", "*">>, <<" ">> >>,
      << <<".", "*">> >> }

\* Patterns an exposure list may hold: blank ones, entities, domains with and
\* without the wildcard, padded and upper-case spellings, and odd ones.
Patterns ==
    { <<>>, <<" ">>, <<" ", " ">>,
      <<"a", ".", "x">>, <<" ", "A", ".", "X", " ">>, <<"a", ".", "b">>,
      <<"a", ".", "*">>, <<"B", ".", "*", " ">>, <<"a">>, <<" ", "X">>,
      <<".", "*">>, <<"*">>, <<"a", ".">>, <<".", "x">>,
      <<"a", ".", "x", ".", "*">>, <<"a", "*">> }

\* The exposure lists of at most MaxPatterns patterns.
PatternLists ==
    UNION { [1..n -> Patterns] : n \in 0..MaxPatterns }

\* Identifiers the compiled filter is asked about.
Identifiers ==
    { <<>>, <<"a">>, <<"A">>, <<"x">>, <<"b">>, <<"*">>, <<"a", "*">>,
      <<"a", ".", "x">>, <<"A", ".", "X">>, <<"a", ".", "b">>, <<"a", ".">>,
      <<"b", ".", "x">>, <<"B", ".", "a">>, <<"x", ".", "a">>, <<".", "x">>,
      <<"a", ".", "x", ".", "b">>, <<"a", ".", "*">>, <<" ", "a", ".", "x">> }

\* entity_id values of delivered state-change events; has_id = FALSE is a missing id.
EventIds ==
    { [has_id |-> FALSE, entity_id |-> <<>>],
      [has_id |-> TRUE, entity_id |-> <<>>],
      [has_id |-> TRUE, entity_id |-> <<"a", ".", "x">>],
      [has_id |-> TRUE, entity_id |-> <<"A", ".", "X">>],
      [has_id |-> TRUE, entity_id |-> <<"a", ".", "b">>],
      [has_id |-> TRUE, entity_id |-> <<"b", ".", "x">>],
      [has_id |-> TRUE, entity_id |-> <<".", "x">>] }

\* ---------------------------------------------------------- invoke requests
\* A service-data attribute: a string, or something that is not a string
\* (None when the key is missing, or a value of another type).
Str(x) == [isstr |-> TRUE, v |-> x]
NotStr == [isstr |-> FALSE, v |-> None]
\* A value that is neither a string nor None.
NonString == [isstr |-> FALSE, v |-> "non-string"]

\* call.data of invoke_service calls: entry_id, domain, service and the
\* optional correlation_id (service_data, target and the context attributes
\* are absent).
ValidRequest ==
    [entry_id |-> Str(ENTRY_ID), domain |-> Str("light"), service |-> Str("turn_on"),
     correlation_id |-> NotStr]

InvokeRequests ==
    { ValidRequest,
      [ValidRequest EXCEPT !.entry_id = Str("entry-9")],
      [ValidRequest EXCEPT !.entry_id = Str("")],
      [ValidRequest EXCEPT !.entry_id = NotStr],
      [ValidRequest EXCEPT !.domain = Str("")],
      [ValidRequest EXCEPT !.domain = NotStr],
      [ValidRequest EXCEPT !.service = Str("")],
      [ValidRequest EXCEPT !.service = NotStr],
      [ValidRequest EXCEPT !.correlation_id = Str("corr-1")],
      [ValidRequest EXCEPT !.correlation_id = Str("")],
      [ValidRequest EXCEPT !.correlation_id = NonString] }

\* What hass.services.async_call(domain, service, ...) may do.
ExecOutcomes ==
    { [raised |-> "no", result |-> "status-ok", message |-> None],
      [raised |-> "HomeAssistantError", result |-> None, message |-> "boom"],
      [raised |-> "Exception", result |-> None, message |-> "unexpected"] }

PausedError == "Autonomy is currently paused for this Embodied AI instance"
NoEntryError == "No aiembodied configuration found for entry_id"

\* ---------------------------------------------------------------- variables

VARIABLES
    \* AutonomyController
    paused,                \* _paused
    diagnostics,           \* _diagnostics: AutonomyDiagnostics
    notification_active,   \* _notification_active
    failure_threshold,     \* _failure_threshold
    listeners,             \* _listeners (ordered)
    pause_callbacks,       \* _pause_callbacks (ordered)
    \* host persistence: entry.options
    options,
    \* ExposureController
    filters,               \* _filters
    f_unsubscribe,         \* _unsubscribe: "None" or "handle"
    f_paused,              \* _paused
    \* host event source: number of registered state-change handlers
    hostSubs,
    \* hass.data[DOMAIN][entry_id] holds the runtime
    runtime,
    \* coroutine calls in flight: a bag of call records
    tasks,
    \* history: the record_failure calls and the notification 'create' calls since
    \* the last record_success call, whether an earlier run had a 'create', and
    \* whether the forwarder's async_shutdown was called with no async_setup since
    run,
    \* history: the step just taken and what it did
    ev

ctlVars == <<paused, diagnostics, notification_active, failure_threshold,
             listeners, pause_callbacks>>
fwdVars == <<filters, f_unsubscribe, f_paused, hostSubs>>
vars == <<paused, diagnostics, notification_active, failure_threshold, listeners,
          pause_callbacks, options, filters, f_unsubscribe, f_paused, hostSubs,
          runtime, tasks, run, ev>>

\* The model holds at most MaxTasks suspended calls.
CanSuspend == BagCardinality(tasks) < MaxTasks
Suspended(t) == tasks (+) SetToBag({t})
Resumed(t) == tasks (-) SetToBag({t})


\* ------------------------------------------------------ ExposureController
\* The forwarder's mutable state as a record: _unsubscribe, _paused, and the
\* host's count of registered state-change handlers.

Fwd == [unsubscribe |-> f_unsubscribe, paused |-> f_paused, subs |-> hostSubs]

filter_empty == filters.entities = {} /\ filters.domains = {}

\* async_track_state_change_event(hass, MATCH_ALL, handler): the host registers
\* the handler and hands back the unsubscribe handle.
track(f) == [f EXCEPT !.unsubscribe = "handle", !.subs = @ + 1]

\* self._unsubscribe(); self._unsubscribe = None
release(f) == [f EXCEPT !.unsubscribe = None, !.subs = @ - 1]

\* ExposureController.async_setup without the check of a held handle
exposure_async_setup_tracks_again(f) ==
    IF filter_empty THEN f ELSE track(f)

\* ExposureController.async_setup
exposure_async_setup(f) ==
    IF filter_empty THEN f
    ELSE IF f.unsubscribe # None THEN f
    ELSE track(f)

\* ExposureController.async_shutdown
exposure_async_shutdown(f) ==
    IF f.unsubscribe = None THEN f ELSE release(f)

\* ExposureController.async_set_paused that keeps the subscription when pausing
exposure_async_set_paused_keeps_subscription(f, p) ==
    IF p = f.paused THEN f
    ELSE LET g == [f EXCEPT !.paused = p]
         IN IF p THEN g
            ELSE IF ~filter_empty /\ g.unsubscribe = None THEN track(g) ELSE g

\* ExposureController.async_set_paused that resubscribes whatever the filter
exposure_async_set_paused_any_filter(f, p) ==
    IF p = f.paused THEN f
    ELSE LET g == [f EXCEPT !.paused = p]
         IN IF p
            THEN (IF g.unsubscribe # None THEN release(g) ELSE g)
            ELSE IF g.unsubscribe = None THEN track(g) ELSE g

\* ExposureController.async_set_paused
exposure_async_set_paused(f, p) ==
    IF p = f.paused THEN f
    ELSE LET g == [f EXCEPT !.paused = p]
         IN IF p
            THEN (IF g.unsubscribe # None THEN release(g) ELSE g)
            ELSE IF ~filter_empty /\ g.unsubscribe = None THEN track(g) ELSE g

\* _handle_state_change without the check of _paused
handle_state_change_ignores_pause(e, f) ==
    IF ~e.has_id \/ e.entity_id = <<>> \/ ~allows(filters, e.entity_id)
    THEN [dispatch |-> FALSE]
    ELSE [dispatch |-> TRUE,
          payload |-> [entity_id |-> e.entity_id,
                       domain |-> split_first(e.entity_id, ".")]]

\* _handle_state_change on event e: whether a forward task is created, and
\* the entity_id and domain of the payload _build_payload gives it.
handle_state_change(e, f) ==
    IF ~e.has_id \/ e.entity_id = <<>> \/ ~allows(filters, e.entity_id)
    THEN [dispatch |-> FALSE]
    ELSE IF f.paused THEN [dispatch |-> FALSE]
    ELSE [dispatch |-> TRUE,
          payload |-> [entity_id |-> e.entity_id,
                       domain |-> split_first(e.entity_id, ".")]]

\* _async_forward: the audit record it fires for payload `pl`; the "error" key
\* is absent (None here) on success.
forward_audit(pl, ok) ==
    [entry_id |-> ENTRY_ID, entity_id |-> pl.entity_id, domain |-> pl.domain,
     success |-> ok, error |-> IF ok THEN None ELSE ClientErrorText]

\* ------------------------------------------------------ AutonomyController

\* AutonomyController.__init__: self._failure_threshold = max(1, failure_threshold)
init_failure_threshold(arg) == IF arg < 1 THEN 1 ELSE arg

NoDiagnostics == [consecutive_failures |-> 0, last_failure |-> None, last_source |-> None]

\* upstream_available
upstream_available == diagnostics.consecutive_failures = 0

\* the listener loop without its try/except: the first exception ends it
RECURSIVE notify_listeners_uncaught(_)
notify_listeners_uncaught(ls) ==
    IF ls = <<>> THEN [invoked |-> <<>>, logged |-> <<>>]
    ELSE IF Head(ls) \in RaisingListeners
    THEN [invoked |-> <<Head(ls)>>, logged |-> <<>>]
    ELSE LET r == notify_listeners_uncaught(Tail(ls))
         IN [invoked |-> <<Head(ls)>> \o r.invoked, logged |-> r.logged]

\* The loop of _async_notify_listeners over the list ls: each listener is
\* called in order; an exception it raises is logged and the loop goes on.
\* invoked: the listeners called; logged: those whose exception was logged.
RECURSIVE notify_listeners(_)
notify_listeners(ls) ==
    IF ls = <<>> THEN [invoked |-> <<>>, logged |-> <<>>]
    ELSE LET r == notify_listeners(Tail(ls))
         IN IF Head(ls) \in RaisingListeners
            THEN [invoked |-> <<Head(ls)>> \o r.invoked,
                  logged |-> <<Head(ls)>> \o r.logged]
            ELSE [invoked |-> <<Head(ls)>> \o r.invoked, logged |-> r.logged]

\* _async_notify_listeners: every listener of list(self._listeners), in order;
\* the value is the sequence of listeners invoked.
async_notify_listeners == notify_listeners(listeners).invoked

\* record_success without its early return
record_success_always_notifies ==
    [diagnostics |-> NoDiagnostics,
     notification_active |-> FALSE,
     notified |-> async_notify_listeners]

\* record_success that resets the count and the flag only
record_success_keeps_last ==
    IF diagnostics.consecutive_failures = 0 /\ ~notification_active
    THEN [diagnostics |-> diagnostics,
          notification_active |-> notification_active,
          notified |-> <<>>]
    ELSE [diagnostics |-> [diagnostics EXCEPT !.consecutive_failures = 0],
          notification_active |-> FALSE,
          notified |-> async_notify_listeners]

\* record_success that leaves the notification flag as it is
record_success_keeps_notification ==
    IF diagnostics.consecutive_failures = 0 /\ ~notification_active
    THEN [diagnostics |-> diagnostics,
          notification_active |-> notification_active,
          notified |-> <<>>]
    ELSE [diagnostics |-> NoDiagnostics,
          notification_active |-> notification_active,
          notified |-> async_notify_listeners]

\* record_success: the new controller state and the listeners it notified.
record_success ==
    IF diagnostics.consecutive_failures = 0 /\ ~notification_active
    THEN [diagnostics |-> diagnostics,
          notification_active |-> notification_active,
          notified |-> <<>>]
    ELSE [diagnostics |-> NoDiagnostics,
          notification_active |-> FALSE,
          notified |-> async_notify_listeners]

\* record_failure that takes the notification flag down when it raises none
record_failure_lowers_flag(source, message) ==
    LET d == [consecutive_failures |-> diagnostics.consecutive_failures + 1,
              last_failure |-> message,
              last_source |-> source]
        create == ~(d.consecutive_failures < failure_threshold) /\ ~notification_active
    IN [diagnostics |-> d,
        notification_active |-> create,
        notified |-> async_notify_listeners,
        create |-> create]

\* record_failure that raises the notification only past the threshold
record_failure_past_threshold(source, message) ==
    LET d == [consecutive_failures |-> diagnostics.consecutive_failures + 1,
              last_failure |-> message,
              last_source |-> source]
        create == d.consecutive_failures > failure_threshold /\ ~notification_active
    IN [diagnostics |-> d,
        notification_active |-> IF create THEN TRUE ELSE notification_active,
        notified |-> async_notify_listeners,
        create |-> create]

\* record_failure without the check of _notification_active
record_failure_no_dedup(source, message) ==
    LET d == [consecutive_failures |-> diagnostics.consecutive_failures + 1,
              last_failure |-> message,
              last_source |-> source]
        create == ~(d.consecutive_failures < failure_threshold)
    IN [diagnostics |-> d,
        notification_active |-> IF create THEN TRUE ELSE notification_active,
        notified |-> async_notify_listeners,
        create |-> create]

\* record_failure that stops counting once a notification is active
record_failure_saturating(source, message) ==
    LET d == [consecutive_failures |->
                  IF notification_active THEN diagnostics.consecutive_failures
                  ELSE diagnostics.consecutive_failures + 1,
              last_failure |-> message,
              last_source |-> source]
        create == ~(d.consecutive_failures < failure_threshold) /\ ~notification_active
    IN [diagnostics |-> d,
        notification_active |-> IF create THEN TRUE ELSE notification_active,
        notified |-> async_notify_listeners,
        create |-> create]

\* record_failure that notifies the listeners only below the threshold
record_failure_quiet_from_threshold(source, message) ==
    LET d == [consecutive_failures |-> diagnostics.consecutive_failures + 1,
              last_failure |-> message,
              last_source |-> source]
        create == ~(d.consecutive_failures < failure_threshold) /\ ~notification_active
    IN [diagnostics |-> d,
        notification_active |-> IF create THEN TRUE ELSE notification_active,
        notified |-> IF d.consecutive_failures < failure_threshold
                     THEN async_notify_listeners ELSE <<>>,
        create |-> create]

\* record_failure up to its await: the new controller state, the listeners it
\* notified, and whether it goes on to call persistent_notification.create.
record_failure(source, message) ==
    LET d == [consecutive_failures |-> diagnostics.consecutive_failures + 1,
              last_failure |-> message,
              last_source |-> source]
        create == ~(d.consecutive_failures < failure_threshold) /\ ~notification_active
    IN [diagnostics |-> d,
        notification_active |-> IF create THEN TRUE ELSE notification_active,
        notified |-> async_notify_listeners,
        create |-> create]

\* _async_update_entry_options that writes only while nothing is stored
async_update_entry_options_once(p) ==
    IF OPTIONS_AUTONOMY_PAUSED \in DOMAIN options
    THEN [options |-> options, wrote |-> FALSE]
    ELSE [options |-> [k \in DOMAIN options \cup {OPTIONS_AUTONOMY_PAUSED} |->
                          IF k = OPTIONS_AUTONOMY_PAUSED THEN p ELSE options[k]],
          wrote |-> TRUE]

\* _async_update_entry_options without the comparison with the stored value
async_update_entry_options_always(p) ==
    [options |-> [k \in DOMAIN options \cup {OPTIONS_AUTONOMY_PAUSED} |->
                     IF k = OPTIONS_AUTONOMY_PAUSED THEN p ELSE options[k]],
     wrote |-> TRUE]

\* _async_update_entry_options: the options after the call and whether
\* hass.config_entries.async_update_entry was called.
async_update_entry_options(p) ==
    IF OPTIONS_AUTONOMY_PAUSED \in DOMAIN options /\ options[OPTIONS_AUTONOMY_PAUSED] = p
    THEN [options |-> options, wrote |-> FALSE]
    ELSE [options |-> [k \in DOMAIN options \cup {OPTIONS_AUTONOMY_PAUSED} |->
                          IF k = OPTIONS_AUTONOMY_PAUSED THEN p ELSE options[k]],
          wrote |-> TRUE]

\* _async_apply_pause_state: every callback of list(self._pause_callbacks), in
\* order, each awaited before the next. The registered callbacks take no
\* suspension of their own (ExposureController.async_set_paused awaits nothing),
\* so the loop is one step. An exception raised by the call is logged and the
\* loop goes on (lines 116-120); an exception raised by `await result` (line
\* 122) is outside the try and leaves the loop. called: the sequence of
\* <<callback, argument>>; raised: whether an exception left the loop.
RECURSIVE apply_pause_state_loop(_, _, _, _)
apply_pause_state_loop(cbs, p, f, called) ==
    IF cbs = <<>> THEN [fwd |-> f, called |-> called, raised |-> FALSE, trace |-> <<>>]
    ELSE IF Head(cbs) \in RaisingCallbacks
    THEN LET rest == apply_pause_state_loop(Tail(cbs), p, f,
                                            Append(called, <<Head(cbs), p>>))
         IN [rest EXCEPT !.trace = << <<"call", Head(cbs)>>, <<"caught", Head(cbs)>> >> \o @]
    ELSE IF Head(cbs) \in RaisingCoroutineCallbacks
    THEN [fwd |-> f, called |-> Append(called, <<Head(cbs), p>>), raised |-> TRUE,
          trace |-> << <<"call", Head(cbs)>>, <<"raised", Head(cbs)>> >>]
    ELSE LET rest == apply_pause_state_loop(
                         Tail(cbs), p,
                         IF Head(cbs) = ExposureCallback
                         THEN exposure_async_set_paused(f, p) ELSE f,
                         Append(called, <<Head(cbs), p>>))
         IN [rest EXCEPT !.trace = << <<"call", Head(cbs)>>, <<"done", Head(cbs)>> >> \o @]

apply_pause_state(cbs, p, f) == apply_pause_state_loop(cbs, p, f, <<>>)

\* the listeners notified after the callbacks, as entries of the fan-out's trace
notify_trace(r, ls) ==
    IF r.raised THEN <<>>
    ELSE [i \in 1..Len(notify_listeners(ls).invoked) |->
              <<"notify", notify_listeners(ls).invoked[i]>>]

\* the fan-out without force_notify
pause_fan_out_unforced(p, state_changed, force_notify, cbs, ls, f) ==
    IF state_changed
    THEN LET r == apply_pause_state(cbs, p, f)
         IN [fwd |-> r.fwd, called |-> r.called, raised |-> r.raised,
             notified |-> IF r.raised THEN <<>> ELSE notify_listeners(ls).invoked,
             trace |-> r.trace \o notify_trace(r, ls)]
    ELSE [fwd |-> f, called |-> <<>>, raised |-> FALSE, notified |-> <<>>,
          trace |-> <<>>]

\* the fan-out whatever state_changed and force_notify are
pause_fan_out_unconditional(p, state_changed, force_notify, cbs, ls, f) ==
    LET r == apply_pause_state(cbs, p, f)
    IN [fwd |-> r.fwd, called |-> r.called, raised |-> r.raised,
        notified |-> IF r.raised THEN <<>> ELSE notify_listeners(ls).invoked,
        trace |-> r.trace \o notify_trace(r, ls)]

\* the fan-out that notifies the listeners before it applies the callbacks
pause_fan_out_listeners_first(p, state_changed, force_notify, cbs, ls, f) ==
    IF state_changed \/ force_notify
    THEN LET r == apply_pause_state(cbs, p, f)
         IN [fwd |-> r.fwd, called |-> r.called, raised |-> r.raised,
             notified |-> IF r.raised THEN <<>> ELSE notify_listeners(ls).invoked,
             trace |-> notify_trace(r, ls) \o r.trace]
    ELSE [fwd |-> f, called |-> <<>>, raised |-> FALSE, notified |-> <<>>,
          trace |-> <<>>]

\* async_set_paused, lines 110-112: the fan-out that ends the call. When an
\* exception leaves _async_apply_pause_state it leaves async_set_paused too,
\* before the listeners are notified.
pause_fan_out(p, state_changed, force_notify, cbs, ls, f) ==
    IF state_changed \/ force_notify
    THEN LET r == apply_pause_state(cbs, p, f)
         IN [fwd |-> r.fwd, called |-> r.called, raised |-> r.raised,
             notified |-> IF r.raised THEN <<>> ELSE notify_listeners(ls).invoked,
             trace |-> r.trace \o notify_trace(r, ls)]
    ELSE [fwd |-> f, called |-> <<>>, raised |-> FALSE, notified |-> <<>>,
          trace |-> <<>>]

\* ----------------------------------------------- AutonomyController actions

\* async_add_listener
AddListener(l) ==
    /\ Len(listeners) < MaxRegistry
    /\ listeners' = Append(listeners, l)
    /\ ev' = [op |-> "add_listener", listener |-> l]
    /\ UNCHANGED <<paused, diagnostics, notification_active, failure_threshold,
                   pause_callbacks, options, fwdVars, runtime, tasks, run>>

\* self._listeners.remove(callback): the first occurrence, if any.
list_remove(s, x) ==
    IF \E i \in 1..Len(s) : s[i] = x
    THEN LET i == CHOOSE k \in 1..Len(s) : s[k] = x /\ \A j \in 1..(k - 1) : s[j] # x
         IN SubSeq(s, 1, i - 1) \o SubSeq(s, i + 1, Len(s))
    ELSE s

\* the _remove handle async_add_listener returned for callback l
RemoveListener(l) ==
    /\ listeners' = list_remove(listeners, l)
    /\ ev' = [op |-> "remove_listener", listener |-> l]
    /\ UNCHANGED <<paused, diagnostics, notification_active, failure_threshold,
                   pause_callbacks, options, fwdVars, runtime, tasks, run>>

\* add_pause_callbacks
AddPauseCallbacks(cbs) ==
    /\ Len(pause_callbacks) + Len(cbs) <= MaxRegistry
    /\ pause_callbacks' = pause_callbacks \o cbs
    /\ ev' = [op |-> "add_pause_callbacks", callbacks |-> cbs]
    /\ UNCHANGED <<paused, diagnostics, notification_active, failure_threshold,
                   listeners, options, fwdVars, runtime, tasks, run>>

\* async_set_paused that assigns self._paused only once its write has returned
SetPausedCallWriteFirst(p, persist, force_notify) ==
    LET state_changed == p # paused
        w == IF persist THEN async_update_entry_options(p)
             ELSE [options |-> options, wrote |-> FALSE]
        call == [kind |-> "set_paused", pc |-> "writing", p |-> p, persist |-> persist,
                 force_notify |-> force_notify, was |-> paused,
                 state_changed |-> state_changed, wrote |-> w.wrote]
        fan == pause_fan_out(p, state_changed, force_notify, pause_callbacks, listeners, Fwd)
    IN /\ paused' = (IF w.wrote THEN paused ELSE p)
       /\ options' = w.options
       /\ IF w.wrote
          THEN /\ CanSuspend
               /\ tasks' = Suspended(call)
               /\ UNCHANGED fwdVars
               /\ ev' = [op |-> "set_paused.call", done |-> FALSE, call |-> call,
                         called |-> <<>>, notified |-> <<>>, raised |-> FALSE,
                         trace |-> <<>>]
          ELSE /\ f_unsubscribe' = fan.fwd.unsubscribe
               /\ f_paused' = fan.fwd.paused
               /\ hostSubs' = fan.fwd.subs
               /\ UNCHANGED <<filters, tasks>>
               /\ ev' = [op |-> "set_paused.call", done |-> TRUE, call |-> call,
                         called |-> fan.called, notified |-> fan.notified,
                         raised |-> fan.raised, trace |-> fan.trace]
       /\ UNCHANGED <<diagnostics, notification_active, failure_threshold, listeners,
                      pause_callbacks, runtime, run>>

\* async_set_paused from its first line to its first suspension: the host
\* performs the options write when async_update_entry is called and the call is
\* then suspended while the host runs its update listeners; without a write the
\* call runs to its end.
SetPausedCall(p, persist, force_notify) ==
    LET state_changed == p # paused
        w == IF persist THEN async_update_entry_options(p)
             ELSE [options |-> options, wrote |-> FALSE]
        call == [kind |-> "set_paused", pc |-> "writing", p |-> p, persist |-> persist,
                 force_notify |-> force_notify, was |-> paused,
                 state_changed |-> state_changed, wrote |-> w.wrote]
        fan == pause_fan_out(p, state_changed, force_notify, pause_callbacks, listeners, Fwd)
    IN /\ paused' = p
       /\ options' = w.options
       /\ IF w.wrote
          THEN /\ CanSuspend
               /\ tasks' = Suspended(call)
               /\ UNCHANGED fwdVars
               /\ ev' = [op |-> "set_paused.call", done |-> FALSE, call |-> call,
                         called |-> <<>>, notified |-> <<>>, raised |-> FALSE,
                         trace |-> <<>>]
          ELSE /\ f_unsubscribe' = fan.fwd.unsubscribe
               /\ f_paused' = fan.fwd.paused
               /\ hostSubs' = fan.fwd.subs
               /\ UNCHANGED <<filters, tasks>>
               /\ ev' = [op |-> "set_paused.call", done |-> TRUE, call |-> call,
                         called |-> fan.called, notified |-> fan.notified,
                         raised |-> fan.raised, trace |-> fan.trace]
       /\ UNCHANGED <<diagnostics, notification_active, failure_threshold, listeners,
                      pause_callbacks, runtime, run>>

\* async_set_paused after the persistence write returned: lines 110-112.
SetPausedResume(call) ==
    /\ call.kind = "set_paused"
    /\ LET fan == pause_fan_out(call.p, call.state_changed, call.force_notify,
                                pause_callbacks, listeners, Fwd)
       IN /\ f_unsubscribe' = fan.fwd.unsubscribe
          /\ f_paused' = fan.fwd.paused
          /\ hostSubs' = fan.fwd.subs
          /\ tasks' = Resumed(call)
          /\ ev' = [op |-> "set_paused.resume", done |-> TRUE, call |-> call,
                    called |-> fan.called, notified |-> fan.notified,
                    raised |-> fan.raised, trace |-> fan.trace]
    /\ UNCHANGED <<ctlVars, options, filters, runtime, run>>

\* record_success called on the controller
RecordSuccess ==
    LET r == record_success
    IN /\ diagnostics' = r.diagnostics
       /\ notification_active' = r.notification_active
       /\ run' = [run EXCEPT !.failures = 0, !.creates = 0,
                                   !.earlier = run.earlier \/ run.creates > 0]
       /\ ev' = [op |-> "record_success", notified |-> r.notified,
                 was_active |-> notification_active]
       /\ UNCHANGED <<paused, failure_threshold, listeners, pause_callbacks, options,
                      fwdVars, runtime, tasks>>

\* record_failure that pauses the controller once the threshold is reached
RecordFailureAutoPause(source, message) ==
    LET r == record_failure(source, message)
    IN /\ diagnostics.consecutive_failures < MaxFailures
       /\ run.failures < MaxFailures
       /\ diagnostics' = r.diagnostics
       /\ notification_active' = r.notification_active
       /\ paused' = (paused \/ ~(r.diagnostics.consecutive_failures < failure_threshold))
       /\ run' = [run EXCEPT !.failures = @ + 1,
                               !.creates = @ + (IF r.create THEN 1 ELSE 0)]
       /\ IF r.create
          THEN /\ CanSuspend
               /\ tasks' = Suspended([kind |-> "record_failure", pc |-> "notifying"])
          ELSE UNCHANGED tasks
       /\ ev' = [op |-> "record_failure", source |-> source, message |-> message,
                 notified |-> r.notified, create |-> r.create]
       /\ UNCHANGED <<failure_threshold, listeners, pause_callbacks, options,
                      fwdVars, runtime>>

\* record_failure called on the controller, up to the notification call
RecordFailure(source, message) ==
    LET r == record_failure(source, message)
    IN /\ diagnostics.consecutive_failures < MaxFailures
       /\ run.failures < MaxFailures
       /\ diagnostics' = r.diagnostics
       /\ notification_active' = r.notification_active
       /\ run' = [run EXCEPT !.failures = @ + 1,
                               !.creates = @ + (IF r.create THEN 1 ELSE 0)]
       /\ IF r.create
          THEN /\ CanSuspend
               /\ tasks' = Suspended([kind |-> "record_failure", pc |-> "notifying"])
          ELSE UNCHANGED tasks
       /\ ev' = [op |-> "record_failure", source |-> source, message |-> message,
                 notified |-> r.notified, create |-> r.create]
       /\ UNCHANGED <<paused, failure_threshold, listeners, pause_callbacks, options,
                      fwdVars, runtime>>

\* hass.services.async_call("persistent_notification", "create", ...) returns
\* to a record_failure that was called on its own; the host call may raise.
NotifyReturn(t, raised) ==
    /\ t.kind = "record_failure"
    /\ tasks' = Resumed(t)
    /\ ev' = [op |-> "notify_return", host_raised |-> raised, raised |-> raised]
    /\ UNCHANGED <<ctlVars, options, fwdVars, runtime, run>>

\* ----------------------------------------------- ExposureController actions

SetFwd(f) ==
    /\ f_unsubscribe' = f.unsubscribe
    /\ f_paused' = f.paused
    /\ hostSubs' = f.subs
    /\ UNCHANGED filters

\* ExposureController.async_setup called on the forwarder
FwdSetup ==
    /\ SetFwd(exposure_async_setup(Fwd))
    /\ ev' = [op |-> "exposure.setup", subscribed |-> f_unsubscribe # None]
    /\ run' = [run EXCEPT !.shutdown = FALSE]
    /\ UNCHANGED <<ctlVars, options, runtime, tasks>>

\* ExposureController.async_shutdown called on the forwarder
FwdShutdown ==
    /\ SetFwd(exposure_async_shutdown(Fwd))
    /\ ev' = [op |-> "exposure.shutdown", subscribed |-> f_unsubscribe # None]
    /\ run' = [run EXCEPT !.shutdown = TRUE]
    /\ UNCHANGED <<ctlVars, options, runtime, tasks>>

\* ExposureController.async_set_paused called on the forwarder
FwdSetPaused(p) ==
    /\ SetFwd(exposure_async_set_paused(Fwd, p))
    /\ ev' = [op |-> "exposure.set_paused", p |-> p, was |-> f_paused,
              subscribed |-> f_unsubscribe # None]
    /\ UNCHANGED <<ctlVars, options, runtime, tasks, run>>

\* The host event source delivers a state-change event to the registered
\* handler: _handle_state_change, which may create the task _async_forward;
\* the task runs to its HTTP post.
DeliverEvent(e) ==
    /\ hostSubs > 0
    /\ LET h == handle_state_change(e, Fwd)
       IN /\ IF h.dispatch
             THEN /\ CanSuspend
                  /\ tasks' = Suspended([kind |-> "forward", pc |-> "posting",
                                         payload |-> h.payload])
             ELSE UNCHANGED tasks
          /\ ev' = [op |-> "state_change", event |-> e, dispatched |-> h.dispatch]
    /\ UNCHANGED <<ctlVars, options, fwdVars, runtime, run>>

\* _async_forward after client.async_post_json returned (ok) or raised
\* AIEmbodiedClientError: record_success or record_failure, then the audit
\* event, unless record_failure is suspended in the notification call.
ForwardComplete(t, ok) ==
    /\ t.kind = "forward"
    /\ t.pc = "posting"
    /\ IF ok
       THEN LET r == record_success
            IN /\ diagnostics' = r.diagnostics
               /\ notification_active' = r.notification_active
               /\ run' = [run EXCEPT !.failures = 0, !.creates = 0,
                                   !.earlier = run.earlier \/ run.creates > 0]
               /\ tasks' = Resumed(t)
               /\ ev' = [op |-> "forward.complete", payload |-> t.payload, ok |-> ok,
                         done |-> TRUE, raised |-> FALSE,
                         successes |-> 1, failures |-> <<>>,
                         audits |-> <<forward_audit(t.payload, ok)>>,
                         notified |-> r.notified]
       ELSE LET r == record_failure("event_forward", ClientErrorText)
            IN /\ diagnostics.consecutive_failures < MaxFailures
               /\ run.failures < MaxFailures
               /\ diagnostics' = r.diagnostics
               /\ notification_active' = r.notification_active
               /\ run' = [run EXCEPT !.failures = @ + 1,
                                     !.creates = @ + (IF r.create THEN 1 ELSE 0)]
               /\ tasks' = IF r.create
                           THEN Suspended([t EXCEPT !.pc = "notifying"]) (-) SetToBag({t})
                           ELSE Resumed(t)
               /\ ev' = [op |-> "forward.complete", payload |-> t.payload, ok |-> ok,
                         done |-> ~r.create, raised |-> FALSE,
                         successes |-> 0,
                         failures |-> << <<"event_forward", ClientErrorText>> >>,
                         audits |-> IF r.create THEN <<>>
                                    ELSE <<forward_audit(t.payload, ok)>>,
                         notified |-> r.notified]
    /\ UNCHANGED <<paused, failure_threshold, listeners, pause_callbacks, options,
                   fwdVars, runtime>>

\* The notification call made by record_failure inside _async_forward
\* returns, and the audit event is fired, or raises, and the exception leaves
\* record_failure and _async_forward.
ForwardNotifyReturn(t, raised) ==
    /\ t.kind = "forward"
    /\ t.pc = "notifying"
    /\ tasks' = Resumed(t)
    /\ ev' = [op |-> "forward.notify_return", payload |-> t.payload, ok |-> FALSE,
              done |-> TRUE, host_raised |-> raised, raised |-> raised,
              successes |-> 0,
              failures |-> << <<"event_forward", ClientErrorText>> >>,
              audits |-> IF raised THEN <<>> ELSE <<forward_audit(t.payload, FALSE)>>,
              notified |-> <<>>]
    /\ UNCHANGED <<ctlVars, options, fwdVars, runtime, run>>

\* ------------------------------------------------------------ invoke_service

\* _validate_action_service_data: the three required attributes, in order,
\* then correlation_id, which is kept in the normalized data only when it is
\* a non-empty string (None: the key is not in the normalized data).
validate_action_service_data(data) ==
    IF ~data.entry_id.isstr \/ data.entry_id.v = ""
    THEN [ok |-> FALSE, error |-> "Service data must include a non-empty entry_id"]
    ELSE IF ~data.domain.isstr \/ data.domain.v = ""
    THEN [ok |-> FALSE, error |-> "Service data must include a non-empty domain"]
    ELSE IF ~data.service.isstr \/ data.service.v = ""
    THEN [ok |-> FALSE, error |-> "Service data must include a non-empty service"]
    ELSE IF ~data.correlation_id.isstr /\ data.correlation_id # NotStr
    THEN [ok |-> FALSE, error |-> "Attribute 'correlation_id' must be a string if provided"]
    ELSE [ok |-> TRUE, error |-> None,
          normalized |->
              [entry_id |-> data.entry_id.v, domain |-> data.domain.v,
               service |-> data.service.v,
               correlation_id |-> IF data.correlation_id.isstr /\ data.correlation_id.v # ""
                                  THEN data.correlation_id.v ELSE None]]

\* the handler with its pause check ahead of the validation
invoke_gate_pause_first(data) ==
    LET v == validate_action_service_data(data)
    IN IF paused THEN [admit |-> FALSE, error |-> PausedError]
       ELSE IF ~v.ok THEN [admit |-> FALSE, error |-> v.error]
       ELSE IF ~(runtime /\ data.entry_id.v = ENTRY_ID)
       THEN [admit |-> FALSE, error |-> NoEntryError]
       ELSE [admit |-> TRUE, error |-> None]

\* the handler without its check of runtime.autonomy.paused
invoke_gate_unpaused_only(data) ==
    LET v == validate_action_service_data(data)
    IN IF ~v.ok THEN [admit |-> FALSE, error |-> v.error]
       ELSE IF ~(runtime /\ data.entry_id.v = ENTRY_ID)
       THEN [admit |-> FALSE, error |-> NoEntryError]
       ELSE [admit |-> TRUE, error |-> None]

\* _async_handle_invoke_service, lines 296-313: validation, the lookup of the
\* entry's runtime in hass.data, the pause check. Every rejection raises
\* HomeAssistantError with the message `error`.
invoke_gate(data) ==
    LET v == validate_action_service_data(data)
    IN IF ~v.ok THEN [admit |-> FALSE, error |-> v.error]
       ELSE IF ~(runtime /\ data.entry_id.v = ENTRY_ID)
       THEN [admit |-> FALSE, error |-> NoEntryError]
       ELSE IF paused THEN [admit |-> FALSE, error |-> PausedError]
       ELSE [admit |-> TRUE, error |-> None]

\* lines 322-342: what the handler makes of the executor's outcome
exec_result(o) ==
    IF o.raised = "no"
    THEN [success |-> TRUE, error_message |-> None, result |-> o.result]
    ELSE [success |-> FALSE, error_message |-> o.message, result |-> None]

\* lines 344-354: the action_executed audit record ("error" absent: None;
\* "correlation_id" is always there, None when the data has none)
action_audit(data, r) ==
    [entry_id |-> data.entry_id, domain |-> data.domain, service |-> data.service,
     correlation_id |-> data.correlation_id,
     success |-> r.success, error |-> r.error_message]

\* lines 358-379: the action_result report ("correlation_id", "error" absent: None)
action_report(data, r) ==
    [type |-> "action_result",
     entry_id |-> data.entry_id, domain |-> data.domain, service |-> data.service,
     success |-> r.success, result |-> r.result,
     correlation_id |-> data.correlation_id,
     error |-> IF ~r.success /\ r.error_message # None THEN r.error_message ELSE None]

\* the response without the correlation id
invoke_response_uncorrelated(t) ==
    [success |-> t.success, result |-> t.result, error |-> t.error_message,
     correlation_id |-> None]

\* lines 391-399: the response ("error", "correlation_id" absent: None)
invoke_response(t) ==
    [success |-> t.success, result |-> t.result, error |-> t.error_message,
     correlation_id |-> t.data.correlation_id]

\* The handler is called: it rejects the call, or goes on, without a
\* suspension, to the executor call hass.services.async_call(...), where it is
\* suspended. The task's data is the normalized data; paused_at_exec: the
\* controller's paused as the executor call starts.
InvokeCall(data) ==
    LET g == invoke_gate(data)
    IN /\ IF g.admit
          THEN /\ CanSuspend
               /\ tasks' = Suspended([kind |-> "invoke", pc |-> "executing",
                                      data |-> validate_action_service_data(data).normalized,
                                      paused_at_exec |-> paused])
          ELSE UNCHANGED tasks
       /\ ev' = [op |-> "invoke.call", data |-> data, admitted |-> g.admit,
                 error |-> g.error]
       /\ UNCHANGED <<ctlVars, options, fwdVars, runtime, run>>

\* The executor call returns or raises: the audit event is fired and the
\* action_result report is posted (lines 332-382); the handler is suspended
\* in client.async_post_json. effects: what the handler emitted, in order.
InvokeExecDone(t, o) ==
    /\ t.kind = "invoke"
    /\ t.pc = "executing"
    /\ LET r == exec_result(o)
           t2 == [kind |-> "invoke", pc |-> "reporting", data |-> t.data,
                  paused_at_exec |-> t.paused_at_exec,
                  success |-> r.success, error_message |-> r.error_message,
                  result |-> r.result,
                  audits |-> <<action_audit(t.data, r)>>,
                  reports |-> <<action_report(t.data, r)>>,
                  effects |-> <<"action_executed", "action_result">>]
       IN /\ tasks' = Suspended(t2) (-) SetToBag({t})
          /\ ev' = [op |-> "invoke.exec_done", task |-> t2]
    /\ UNCHANGED <<ctlVars, options, fwdVars, runtime, run>>

\* client.async_post_json returned (ok) or raised AIEmbodiedClientError:
\* record_success or record_failure("action_result", ...), then the response,
\* unless record_failure is suspended in the notification call.
InvokeReportDone(t, ok) ==
    /\ t.kind = "invoke"
    /\ t.pc = "reporting"
    /\ IF ok
       THEN LET r == record_success
            IN /\ diagnostics' = r.diagnostics
               /\ notification_active' = r.notification_active
               /\ run' = [run EXCEPT !.failures = 0, !.creates = 0,
                                   !.earlier = run.earlier \/ run.creates > 0]
               /\ tasks' = Resumed(t)
               /\ ev' = [op |-> "invoke.report_done", task |-> t, ok |-> ok, done |-> TRUE,
                         raised |-> FALSE, returned |-> TRUE,
                         response |-> invoke_response(t),
                         successes |-> 1, failures |-> <<>>, notified |-> r.notified]
       ELSE LET r == record_failure("action_result", ClientErrorText)
            IN /\ diagnostics.consecutive_failures < MaxFailures
               /\ run.failures < MaxFailures
               /\ diagnostics' = r.diagnostics
               /\ notification_active' = r.notification_active
               /\ run' = [run EXCEPT !.failures = @ + 1,
                                     !.creates = @ + (IF r.create THEN 1 ELSE 0)]
               /\ tasks' = IF r.create
                           THEN Suspended([t EXCEPT !.pc = "notifying"]) (-) SetToBag({t})
                           ELSE Resumed(t)
               /\ ev' = [op |-> "invoke.report_done", task |-> t, ok |-> ok,
                         done |-> ~r.create, raised |-> FALSE, returned |-> ~r.create,
                         response |-> invoke_response(t),
                         successes |-> 0,
                         failures |-> << <<"action_result", ClientErrorText>> >>,
                         notified |-> r.notified]
    /\ UNCHANGED <<paused, failure_threshold, listeners, pause_callbacks, options,
                   fwdVars, runtime>>

\* The notification call made by record_failure inside the handler returns,
\* and the handler returns its response, or raises, and the exception leaves
\* record_failure and the handler.
InvokeNotifyReturn(t, raised) ==
    /\ t.kind = "invoke"
    /\ t.pc = "notifying"
    /\ tasks' = Resumed(t)
    /\ ev' = [op |-> "invoke.notify_return", task |-> t, ok |-> FALSE, done |-> TRUE,
              host_raised |-> raised, raised |-> raised, returned |-> ~raised,
              response |-> invoke_response(t),
              successes |-> 0,
              failures |-> << <<"action_result", ClientErrorText>> >>,
              notified |-> <<>>]
    /\ UNCHANGED <<ctlVars, options, fwdVars, runtime, run>>

\* async_setup_entry that announces the stored value with persist left at its
\* default
setup_entry_persisting(opts) ==
    LET initial == OPTIONS_AUTONOMY_PAUSED \in DOMAIN opts /\ opts[OPTIONS_AUTONOMY_PAUSED]
        f0 == [unsubscribe |-> None, paused |-> FALSE, subs |-> hostSubs]
        f1 == exposure_async_setup(f0)
    IN [paused |-> initial,
        options |-> async_update_entry_options(initial).options,
        fan |-> pause_fan_out(initial, FALSE, TRUE, <<ExposureCallback>>, <<>>, f1)]

\* async_setup_entry, lines 101-121, for the stored options `opts`: the
\* controller is built with initial_paused = bool(opts.get(autonomy_paused,
\* False)), the forwarder is built (not paused, no handle), its async_set_paused
\* is registered as the one pause callback, it is set up, and the stored value
\* is announced with persist=False, force_notify=True.
setup_entry(opts) ==
    LET initial == OPTIONS_AUTONOMY_PAUSED \in DOMAIN opts /\ opts[OPTIONS_AUTONOMY_PAUSED]
        f0 == [unsubscribe |-> None, paused |-> FALSE, subs |-> hostSubs]
        f1 == exposure_async_setup(f0)
    IN [paused |-> initial,
        options |-> opts,
        fan |-> pause_fan_out(initial, FALSE, TRUE, <<ExposureCallback>>, <<>>, f1)]

\* async_setup_entry on an entry that is not loaded and of which no call is
\* left in flight: no step of it is suspended before the runtime is stored.
SetupEntry ==
    /\ ~runtime
    /\ tasks = EmptyBag
    /\ hostSubs = 0
    /\ LET r == setup_entry(options)
       IN /\ paused' = r.paused
          /\ options' = r.options
          /\ f_unsubscribe' = r.fan.fwd.unsubscribe
          /\ f_paused' = r.fan.fwd.paused
          /\ hostSubs' = r.fan.fwd.subs
          /\ ev' = [op |-> "setup_entry", initial |-> r.paused, stored |-> options,
                    called |-> r.fan.called, notified |-> r.fan.notified,
                    trace |-> r.fan.trace]
    /\ diagnostics' = NoDiagnostics
    /\ notification_active' = FALSE
    /\ failure_threshold' = init_failure_threshold(AUTONOMY_FAILURE_THRESHOLD)
    /\ listeners' = <<>>
    /\ pause_callbacks' = <<ExposureCallback>>
    /\ runtime' = TRUE
    /\ run' = [failures |-> 0, creates |-> 0, earlier |-> FALSE, shutdown |-> FALSE]
    /\ UNCHANGED <<filters, tasks>>

\* async_unload_entry that shuts the forwarder down and leaves the runtime in
\* hass.data
unload_entry_keeps_runtime(rt, f) ==
    IF rt
    THEN [runtime |-> TRUE, shutdown_calls |-> 1, fwd |-> exposure_async_shutdown(f)]
    ELSE [runtime |-> FALSE, shutdown_calls |-> 0, fwd |-> f]

\* async_unload_entry, lines 148-154: the entry's record is popped from
\* hass.data and, when there was one, its forwarder's async_shutdown is called.
unload_entry(rt, f) ==
    IF rt
    THEN [runtime |-> FALSE, shutdown_calls |-> 1, fwd |-> exposure_async_shutdown(f)]
    ELSE [runtime |-> FALSE, shutdown_calls |-> 0, fwd |-> f]

\* async_unload_entry on the loaded entry, after the platforms were unloaded
UnloadEntry ==
    /\ runtime
    /\ runtime' = unload_entry(runtime, Fwd).runtime
    /\ SetFwd(unload_entry(runtime, Fwd).fwd)
    /\ ev' = [op |-> "unload_entry",
              shutdown_calls |-> unload_entry(runtime, Fwd).shutdown_calls]
    /\ run' = [run EXCEPT !.shutdown = TRUE]
    /\ UNCHANGED <<ctlVars, options, tasks>>

\* ------------------------------------------------------------- two entries
\* Two loaded config entries. In the specification of this section the
\* variable runtime is the whole registry hass.data[DOMAIN]: a function from
\* entry ids to the entry's runtime (its AutonomyController, its
\* ExposureController) and the entry's stored options.

OTHER_ENTRY_ID == "entry-2"
EntryIds == {ENTRY_ID, OTHER_ENTRY_ID}
NOTIFICATION_AUTONOMY_FAILURE == "aiembodied_autonomy_failure"

\* f"{NOTIFICATION_AUTONOMY_FAILURE}_{self.entry_id}", as its parts
notification_id(entry_id) == <<NOTIFICATION_AUTONOMY_FAILURE, "_", entry_id>>

\* the entry as async_setup_entry leaves it for a stored paused value p
LoadedEntry(p) ==
    LET f1 == exposure_async_setup([unsubscribe |-> None, paused |-> FALSE, subs |-> 0])
        fan == pause_fan_out(p, FALSE, TRUE, <<ExposureCallback>>, <<>>, f1)
    IN [autonomy |-> [paused |-> p,
                      diagnostics |-> NoDiagnostics,
                      notification_active |-> FALSE,
                      failure_threshold |-> init_failure_threshold(AUTONOMY_FAILURE_THRESHOLD)],
        exposure |-> fan.fwd,
        options |-> [k \in {OPTIONS_DEBUG, OPTIONS_AUTONOMY_PAUSED} |->
                        IF k = OPTIONS_DEBUG THEN TRUE ELSE p]]

\* record_success on the controller c
controller_record_success(c) ==
    IF c.diagnostics.consecutive_failures = 0 /\ ~c.notification_active
    THEN c
    ELSE [c EXCEPT !.diagnostics = NoDiagnostics, !.notification_active = FALSE]

\* record_failure(source, message) on the controller c of entry entry_id: the
\* controller after it and the notification id it sends to the host, if any
controller_record_failure(c, entry_id, source, message) ==
    LET d == [consecutive_failures |-> c.diagnostics.consecutive_failures + 1,
              last_failure |-> message,
              last_source |-> source]
        create == ~(d.consecutive_failures < c.failure_threshold) /\ ~c.notification_active
    IN [controller |-> [c EXCEPT !.diagnostics = d,
                                 !.notification_active = IF create THEN TRUE ELSE @],
        sent |-> IF create THEN {notification_id(entry_id)} ELSE {}]

\* the invoke gate that rejects while any loaded entry is paused
entries_invoke_gate_any_paused(data) ==
    LET v == validate_action_service_data(data)
    IN IF ~v.ok THEN [admit |-> FALSE, error |-> v.error]
       ELSE IF data.entry_id.v \notin DOMAIN runtime
       THEN [admit |-> FALSE, error |-> NoEntryError]
       ELSE IF \E e \in DOMAIN runtime : runtime[e].autonomy.paused
       THEN [admit |-> FALSE, error |-> PausedError]
       ELSE [admit |-> TRUE, error |-> None]

\* _async_handle_invoke_service, lines 296-313, over the registry: the entry
\* is looked up by the entry_id of the data and its own controller is asked
entries_invoke_gate(data) ==
    LET v == validate_action_service_data(data)
    IN IF ~v.ok THEN [admit |-> FALSE, error |-> v.error]
       ELSE IF data.entry_id.v \notin DOMAIN runtime
       THEN [admit |-> FALSE, error |-> NoEntryError]
       ELSE IF runtime[data.entry_id.v].autonomy.paused
       THEN [admit |-> FALSE, error |-> PausedError]
       ELSE [admit |-> TRUE, error |-> None]

TwoEntryRequests ==
    { ValidRequest,
      [ValidRequest EXCEPT !.entry_id = Str(OTHER_ENTRY_ID)],
      [ValidRequest EXCEPT !.entry_id = Str("entry-9")],
      [ValidRequest EXCEPT !.entry_id = Str("")] }

\* async_set_paused(p) on the controller of entry e (persist=True, as the
\* switch entity calls it), to its suspension in the options write or, without
\* a write, to its end
EntrySetPausedCall(e, p) ==
    LET rt == runtime[e]
        state_changed == p # rt.autonomy.paused
        wrote == rt.options[OPTIONS_AUTONOMY_PAUSED] # p
        fan == pause_fan_out(p, state_changed, FALSE, <<ExposureCallback>>, <<>>, rt.exposure)
    IN /\ IF wrote
          THEN /\ CanSuspend
               /\ tasks' = Suspended([kind |-> "entry.set_paused", entry |-> e, p |-> p,
                                      state_changed |-> state_changed])
               /\ runtime' = [runtime EXCEPT ![e].autonomy.paused = p,
                                             ![e].options[OPTIONS_AUTONOMY_PAUSED] = p]
          ELSE /\ UNCHANGED tasks
               /\ runtime' = [runtime EXCEPT ![e].autonomy.paused = p,
                                             ![e].exposure = fan.fwd]
       /\ ev' = [op |-> "entry.set_paused", entry |-> e]
       /\ UNCHANGED <<ctlVars, options, fwdVars, run>>

\* the options write of entry t.entry returned: the fan-out of that call
EntrySetPausedResume(t) ==
    /\ t.kind = "entry.set_paused"
    /\ LET fan == pause_fan_out(t.p, t.state_changed, FALSE, <<ExposureCallback>>, <<>>,
                                runtime[t.entry].exposure)
       IN runtime' = [runtime EXCEPT ![t.entry].exposure = fan.fwd]
    /\ tasks' = Resumed(t)
    /\ ev' = [op |-> "entry.set_paused.resume", entry |-> t.entry]
    /\ UNCHANGED <<ctlVars, options, fwdVars, run>>

\* the host delivers a state change of a.x to the handler of entry e's forwarder
EntryDeliverEvent(e) ==
    LET h == handle_state_change([has_id |-> TRUE, entity_id |-> <<"a", ".", "x">>],
                                 runtime[e].exposure)
    IN /\ runtime[e].exposure.subs > 0
       /\ IF h.dispatch
          THEN /\ CanSuspend
               /\ tasks' = Suspended([kind |-> "entry.forward", entry |-> e])
          ELSE UNCHANGED tasks
       /\ ev' = [op |-> "entry.state_change", entry |-> e]
       /\ UNCHANGED <<ctlVars, options, fwdVars, runtime, run>>

\* the outcome of an upstream call is recorded on the controller of entry e:
\* the registry after it and the notification ids sent to the host
entry_record(e, ok, source) ==
    IF ok
    THEN [registry |-> [runtime EXCEPT ![e].autonomy = controller_record_success(@)],
          sent |-> {}]
    ELSE LET r == controller_record_failure(runtime[e].autonomy, e, source, ClientErrorText)
         IN [registry |-> [runtime EXCEPT ![e].autonomy = r.controller],
             sent |-> r.sent]

\* a forward of entry t.entry ends: its HTTP call returned or raised
EntryForwardComplete(t, ok) ==
    /\ t.kind = "entry.forward"
    /\ ok \/ runtime[t.entry].autonomy.diagnostics.consecutive_failures < MaxFailures
    /\ runtime' = entry_record(t.entry, ok, "event_forward").registry
    /\ tasks' = Resumed(t)
    /\ ev' = [op |-> "entry.forward.complete", entry |-> t.entry,
              sent |-> entry_record(t.entry, ok, "event_forward").sent]
    /\ UNCHANGED <<ctlVars, options, fwdVars, run>>

\* the invoke handler is called with data: rejected, or suspended in the
\* executor call
EntryInvokeCall(data) ==
    LET g == entries_invoke_gate(data)
    IN /\ IF g.admit
          THEN /\ CanSuspend
               /\ tasks' = Suspended([kind |-> "entry.invoke", entry |-> data.entry_id.v])
          ELSE UNCHANGED tasks
       /\ ev' = [op |-> "entry.invoke", entry |-> data.entry_id.v, admitted |-> g.admit]
       /\ UNCHANGED <<ctlVars, options, fwdVars, runtime, run>>

\* the report of an admitted invoke of entry t.entry returned or raised
EntryInvokeReportDone(t, ok) ==
    /\ t.kind = "entry.invoke"
    /\ ok \/ runtime[t.entry].autonomy.diagnostics.consecutive_failures < MaxFailures
    /\ runtime' = entry_record(t.entry, ok, "action_result").registry
    /\ tasks' = Resumed(t)
    /\ ev' = [op |-> "entry.invoke.report", entry |-> t.entry,
              sent |-> entry_record(t.entry, ok, "action_result").sent]
    /\ UNCHANGED <<ctlVars, options, fwdVars, run>>

InitEntries ==
    /\ options = [k \in {OPTIONS_DEBUG} |-> TRUE]
    /\ paused = FALSE
    /\ failure_threshold = init_failure_threshold(AUTONOMY_FAILURE_THRESHOLD)
    /\ diagnostics = NoDiagnostics
    /\ notification_active = FALSE
    /\ listeners = <<>>
    /\ pause_callbacks = <<>>
    /\ filters = from_iterable(<< <<"a", ".", "x">> >>)
    /\ f_unsubscribe = None
    /\ f_paused = FALSE
    /\ hostSubs = 0
    /\ tasks = EmptyBag
    /\ run = [failures |-> 0, creates |-> 0, earlier |-> FALSE, shutdown |-> FALSE]
    /\ ev = [op |-> "init"]
    /\ \E stored \in [EntryIds -> BOOLEAN] :
           runtime = [e \in EntryIds |-> LoadedEntry(stored[e])]

NextEntries ==
    \/ \E e \in EntryIds, p \in BOOLEAN : EntrySetPausedCall(e, p)
    \/ \E t \in BagToSet(tasks) : EntrySetPausedResume(t)
    \/ \E e \in EntryIds : EntryDeliverEvent(e)
    \/ \E t \in BagToSet(tasks), ok \in BOOLEAN : EntryForwardComplete(t, ok)
    \/ \E data \in TwoEntryRequests : EntryInvokeCall(data)
    \/ \E t \in BagToSet(tasks), ok \in BOOLEAN : EntryInvokeReportDone(t, ok)

SpecEntries == InitEntries /\ [][NextEntries]_vars

\* ---------------------------------------------------------- specifications

\* The controller as AutonomyController.__init__ leaves it, for the stored
\* options `opts` and the constructor's failure_threshold argument `arg`; the
\* forwarder as ExposureController.__init__ leaves it, for the exposure list `exposure`.
Constructed(opts, arg, exposure) ==
    /\ options = opts
    /\ paused = (OPTIONS_AUTONOMY_PAUSED \in DOMAIN opts /\ opts[OPTIONS_AUTONOMY_PAUSED])
    /\ failure_threshold = init_failure_threshold(arg)
    /\ diagnostics = NoDiagnostics
    /\ notification_active = FALSE
    /\ listeners = <<>>
    /\ pause_callbacks = <<>>
    /\ filters = from_iterable(exposure)
    /\ f_unsubscribe = None
    /\ f_paused = FALSE
    /\ hostSubs = 0
    /\ runtime = FALSE
    /\ tasks = EmptyBag
    /\ run = [failures |-> 0, creates |-> 0, earlier |-> FALSE, shutdown |-> FALSE]
    /\ ev = [op |-> "init"]

\* Upstream health: record_success and record_failure called on a controller
\* with listeners, as the unit tests drive it.
InitHealth ==
    \E opts \in StoredOptions, arg \in ThresholdArgs : Constructed(opts, arg, <<>>)

NextHealth ==
    \/ \E l \in ListenerIds : AddListener(l)
    \/ \E l \in ListenerIds : RemoveListener(l)
    \/ RecordSuccess
    \/ \E a \in FailureArgs : RecordFailure(a[1], a[2])
    \/ \E t \in BagToSet(tasks), raised \in BOOLEAN : NotifyReturn(t, raised)

SpecHealth == InitHealth /\ [][NextHealth]_vars

\* Pause control: async_set_paused called on a controller with observer pause
\* callbacks and listeners, calls overlapping at the persistence write.
InitPause ==
    \E opts \in StoredOptions : Constructed(opts, AUTONOMY_FAILURE_THRESHOLD, <<>>)

NextPause ==
    \/ AddListener("L1")
    \/ RemoveListener("L1")
    \/ AddPauseCallbacks(<<"cb1">>)
    \/ \E p \in BOOLEAN, persist \in BOOLEAN, force \in BOOLEAN : SetPausedCall(p, persist, force)
    \/ \E t \in BagToSet(tasks) : SetPausedResume(t)

SpecPause == InitPause /\ [][NextPause]_vars


\* The forwarder with its controller, its operations called as the unit tests
\* call them and events delivered by the host event source.
InitExposure ==
    \E opts \in StoredOptions, arg \in ThresholdArgs, exposure \in ExposureConfigs :
        Constructed(opts, arg, exposure)

NextExposure ==
    \/ FwdSetup
    \/ FwdShutdown
    \/ \E p \in BOOLEAN : FwdSetPaused(p)
    \/ \E e \in EventIds : DeliverEvent(e)
    \/ \E t \in BagToSet(tasks), ok \in BOOLEAN : ForwardComplete(t, ok)
    \/ \E t \in BagToSet(tasks), raised \in BOOLEAN : ForwardNotifyReturn(t, raised)

SpecExposure == InitExposure /\ [][NextExposure]_vars

\* Persisted pause control: every async_set_paused call is made with
\* persist=True (the default, which the switch entity uses), calls overlapping
\* at the persistence write.
NextPersist ==
    \/ AddListener("L1")
    \/ AddPauseCallbacks(<<"cb1">>)
    \/ \E p \in BOOLEAN, force \in BOOLEAN : SetPausedCall(p, TRUE, force)
    \/ \E t \in BagToSet(tasks) : SetPausedResume(t)

SpecPersist == InitPause /\ [][NextPersist]_vars

\* Loading the entry: async_setup_entry on the stored options, the switch
\* entity's set_paused calls on the loaded entry, async_unload_entry, and the
\* next load.
InitSetup ==
    \E opts \in StoredOptions, exposure \in ExposureConfigs :
        Constructed(opts, AUTONOMY_FAILURE_THRESHOLD, exposure)

NextSetup ==
    \/ SetupEntry
    \/ \E p \in BOOLEAN : runtime /\ SetPausedCall(p, TRUE, FALSE)
    \/ \E t \in BagToSet(tasks) : SetPausedResume(t)
    \/ UnloadEntry

SpecSetup == InitSetup /\ [][NextSetup]_vars

\* The pause fan-out: async_set_paused without a persistence write on a
\* controller whose pause callbacks are the forwarder's async_set_paused and
\* observer callbacks, in any registration order, and which has listeners.
InitFanOut ==
    Constructed([k \in {OPTIONS_DEBUG} |-> TRUE], AUTONOMY_FAILURE_THRESHOLD,
                << <<"a", ".", "x">> >>)

NextFanOut ==
    \/ \E l \in ListenerIds : AddListener(l)
    \/ \E cb \in ProbeCallbacks \cup {ExposureCallback} : AddPauseCallbacks(<<cb>>)
    \/ FwdSetup
    \/ \E p \in BOOLEAN, force_notify \in BOOLEAN : SetPausedCall(p, FALSE, force_notify)

SpecFanOut == InitFanOut /\ [][NextFanOut]_vars

\* The listener registry and its unsubscribe handles: every call of
\* async_add_listener appends the callback and returns a _remove closure over
\* that callback; a closure may be called any number of times.  The handles
\* issued so far, each with its callback and the calls made of it, ride in ev.
ListenerHandles ==
    IF ev.op \in {"add_listener.handle", "handle.remove"} THEN ev.handles ELSE <<>>

AddListenerHandle(l) ==
    /\ Len(ListenerHandles) < MaxHandles
    /\ listeners' = Append(listeners, l)
    /\ ev' = [op |-> "add_listener.handle", listener |-> l,
              handle |-> Len(ListenerHandles) + 1,
              handles |-> Append(ListenerHandles, [callback |-> l, calls |-> 0])]
    /\ UNCHANGED <<paused, diagnostics, notification_active, failure_threshold,
                   pause_callbacks, options, fwdVars, runtime, tasks, run>>

InvokeRemove(h) ==
    /\ h \in 1..Len(ListenerHandles)
    /\ ListenerHandles[h].calls < MaxInvocations
    /\ listeners' = list_remove(listeners, ListenerHandles[h].callback)
    /\ ev' = [op |-> "handle.remove", listener |-> ListenerHandles[h].callback,
              handle |-> h, before |-> listeners,
              handles |-> [ListenerHandles EXCEPT ![h].calls = @ + 1]]
    /\ UNCHANGED <<paused, diagnostics, notification_active, failure_threshold,
                   pause_callbacks, options, fwdVars, runtime, tasks, run>>

InitListeners ==
    Constructed([k \in {OPTIONS_DEBUG} |-> TRUE], AUTONOMY_FAILURE_THRESHOLD, <<>>)

NextListeners ==
    \/ \E l \in ListenerIds : AddListenerHandle(l)
    \/ \E h \in 1..MaxHandles : InvokeRemove(h)

SpecListeners == InitListeners /\ [][NextListeners]_vars

\* The filter alone: ExposureController.__init__ compiles the exposure list of
\* the entry, once for the life of the controller, and the filter is then
\* asked about identifiers.
CompileFilter(exposure) ==
    /\ ev.op = "init"
    /\ filters' = from_iterable(exposure)
    /\ f_unsubscribe' = None
    /\ f_paused' = FALSE
    /\ ev' = [op |-> "compile", exposure |-> exposure]
    /\ UNCHANGED <<ctlVars, options, hostSubs, runtime, tasks, run>>

AskFilter(entity_id) ==
    /\ ev.op \in {"compile", "allows"}
    /\ ev' = [op |-> "allows", exposure |-> ev.exposure, entity_id |-> entity_id,
              result |-> allows(filters, entity_id)]
    /\ UNCHANGED <<ctlVars, options, fwdVars, runtime, tasks, run>>

InitFilter ==
    Constructed([k \in {OPTIONS_DEBUG} |-> TRUE], AUTONOMY_FAILURE_THRESHOLD, <<>>)

NextFilter ==
    \/ \E exposure \in PatternLists : CompileFilter(exposure)
    \/ \E entity_id \in Identifiers : AskFilter(entity_id)

SpecFilter == InitFilter /\ [][NextFilter]_vars

\* Observers that fail: listeners and pause callbacks that raise, registered
\* on a controller whose pause state and upstream health both change. The
\* pause state is set without persistence, as async_setup_entry sets it.
InitObservers ==
    Constructed([k \in {OPTIONS_DEBUG} |-> TRUE], 2, <<>>)

NextObservers ==
    \/ \E l \in ListenerIds : AddListener(l)
    \/ \E cb \in ProbeCallbacks : AddPauseCallbacks(<<cb>>)
    \/ \E p \in BOOLEAN, force \in BOOLEAN : SetPausedCall(p, FALSE, force)
    \/ RecordSuccess
    \/ RecordFailure("event_forward", ClientErrorText)
    \/ \E t \in BagToSet(tasks), raised \in BOOLEAN : NotifyReturn(t, raised)

SpecObservers == InitObservers /\ [][NextObservers]_vars

\* The integration after async_setup and async_setup_entry (lines 99-134):
\* the controller is built from the stored options with the default
\* threshold, the forwarder's async_set_paused is its one pause callback, the
\* forwarder is set up, the stored pause value is announced with
\* async_set_paused(paused, persist=False, force_notify=True), and the runtime
\* is put in hass.data.
Init ==
    \E opts \in StoredOptions, exposure \in {<< <<"a", ".", "x">> >>} :
        LET initial == OPTIONS_AUTONOMY_PAUSED \in DOMAIN opts /\ opts[OPTIONS_AUTONOMY_PAUSED]
            f0 == [unsubscribe |-> None, paused |-> FALSE, subs |-> 0]
        IN /\ options = opts
           /\ paused = initial
           /\ failure_threshold = init_failure_threshold(AUTONOMY_FAILURE_THRESHOLD)
           /\ diagnostics = NoDiagnostics
           /\ notification_active = FALSE
           /\ listeners = <<>>
           /\ pause_callbacks = <<ExposureCallback>>
           /\ filters = from_iterable(exposure)
           /\ LET f1 == exposure_async_setup(f0)
                  fan == pause_fan_out(initial, FALSE, TRUE, <<ExposureCallback>>, <<>>, f1)
              IN /\ f_unsubscribe = fan.fwd.unsubscribe
                 /\ f_paused = fan.fwd.paused
                 /\ hostSubs = fan.fwd.subs
           /\ runtime = TRUE
           /\ tasks = EmptyBag
           /\ run = [failures |-> 0, creates |-> 0, earlier |-> FALSE, shutdown |-> FALSE]
           /\ ev = [op |-> "init"]

\* The loaded entry with its event path: the switch entity's set_paused calls
\* and the host's state-change events, delivered at any moment the forwarder
\* is subscribed, a pending persistence write included.
NextGate ==
    \/ \E p \in BOOLEAN : SetPausedCall(p, TRUE, FALSE)
    \/ \E t \in BagToSet(tasks) : SetPausedResume(t)
    \/ \E e \in EventIds : DeliverEvent(e)
    \/ \E t \in BagToSet(tasks), ok \in BOOLEAN : ForwardComplete(t, ok)
    \/ \E t \in BagToSet(tasks), raised \in BOOLEAN : ForwardNotifyReturn(t, raised)

\* The switch entity calls async_set_paused(True/False) with the defaults
\* persist=True, force_notify=False.
Next ==
    \/ \E p \in BOOLEAN : SetPausedCall(p, TRUE, FALSE)
    \/ \E t \in BagToSet(tasks) : SetPausedResume(t)
    \/ \E d \in InvokeRequests : InvokeCall(d)
    \/ \E t \in BagToSet(tasks), o \in ExecOutcomes : InvokeExecDone(t, o)
    \/ \E t \in BagToSet(tasks), ok \in BOOLEAN : InvokeReportDone(t, ok)
    \/ \E t \in BagToSet(tasks), raised \in BOOLEAN : InvokeNotifyReturn(t, raised)
    \/ UnloadEntry

Spec == Init /\ [][Next]_vars

SpecGate == Init /\ [][NextGate]_vars

\* ------------------------------------------------------------------- claims

\* C1: while the controller is paused, an invoke_service call that is valid
\* and names the loaded entry is rejected with the paused error and changes
\* nothing (no executor call is started, no audit, no report, no failure
\* count), and no executor call is ever started in a state where the
\* controller is paused.
C1_PausedRejectsInvoke ==
    /\ [](\A t \in BagToSet(tasks) : t.kind = "invoke" => ~t.paused_at_exec)
    /\ [][ev'.op = "invoke.call"
          => /\ ev'.admitted => ~paused
             /\ (/\ paused
                 /\ validate_action_service_data(ev'.data).ok
                 /\ runtime
                 /\ ev'.data.entry_id.v = ENTRY_ID)
                => /\ ~ev'.admitted
                   /\ ev'.error = PausedError
                   /\ tasks' = tasks
                   /\ diagnostics' = diagnostics
                   /\ run' = run]_vars

\* a valid call for the loaded entry was rejected while the controller was
\* paused by the switch and another call is still in its executor call
C1_Witness ==
    /\ ev.op = "invoke.call"
    /\ ev.data = ValidRequest
    /\ ~ev.admitted
    /\ ev.error = PausedError
    /\ paused
    /\ runtime
    /\ \E t \in BagToSet(tasks) : t.kind = "invoke" /\ t.pc = "executing"

\* C2: within a run of record_failure calls not interrupted by a
\* record_success, persistent_notification.create is called exactly once, by
\* the call that brings consecutive_failures to failure_threshold: never
\* below the threshold, never a second time in the run; a run after a
\* record_success can call it again.
C2_NotificationOncePerRun ==
    /\ run.creates = (IF run.failures >= failure_threshold THEN 1 ELSE 0)
    /\ run.creates > 0 => diagnostics.consecutive_failures >= failure_threshold
    /\ ev.op = "record_failure" =>
           (ev.create <=> diagnostics.consecutive_failures = failure_threshold)

\* a second run reaches the threshold and notifies again, then goes past it
C2_Witness ==
    /\ run.earlier
    /\ run.creates = 1
    /\ run.failures > failure_threshold
    /\ failure_threshold > 1

\* C8: consecutive_failures is the number of record_failure calls since the
\* last record_success (or since construction), whatever the threshold, and
\* upstream_available holds exactly when there was none.
C8_FailureCount ==
    /\ diagnostics.consecutive_failures = run.failures
    /\ upstream_available <=> run.failures = 0

C8_Witness ==
    /\ ev.op = "record_failure"
    /\ run.earlier
    /\ run.failures > failure_threshold
    /\ ~upstream_available

\* C9: record_success with consecutive_failures = 0 and no active
\* notification changes nothing of the controller and notifies no listener.
C9_SuccessNoOp ==
    [][ (ev'.op = "record_success"
           /\ diagnostics.consecutive_failures = 0 /\ ~notification_active)
        => (UNCHANGED ctlVars /\ ev'.notified = <<>>) ]_vars

\* a healthy controller with two listeners took a record_success in silence
C9_Witness ==
    /\ ev.op = "record_success"
    /\ ev.notified = <<>>
    /\ Len(listeners) = 2
    /\ diagnostics = NoDiagnostics
    /\ ~notification_active

\* C10: record_success with consecutive_failures > 0 or an active
\* notification resets consecutive_failures to 0, clears last_failure,
\* last_source and notification_active, and notifies every registered
\* listener once.
C10_SuccessResets ==
    [][ (ev'.op = "record_success"
           /\ (diagnostics.consecutive_failures > 0 \/ notification_active))
        => /\ diagnostics' = NoDiagnostics
           /\ notification_active' = FALSE
           /\ ev'.notified = listeners
           /\ UNCHANGED <<paused, failure_threshold, listeners, pause_callbacks>> ]_vars

\* a record_success that reset the diagnostics and notified two listeners
\* after a run that had raised the notification
C10_Witness ==
    /\ ev.op = "record_success"
    /\ Len(ev.notified) = 2
    /\ ev.notified = listeners
    /\ run.earlier
    /\ diagnostics = NoDiagnostics
    /\ ~notification_active


C4_PersistOnlyOnChange ==
    [][ IF ev'.op = "set_paused.call"
        THEN LET c == ev'.call
                 stored_equal == /\ OPTIONS_AUTONOMY_PAUSED \in DOMAIN options
                                 /\ options[OPTIONS_AUTONOMY_PAUSED] = c.p
             IN /\ c.wrote <=> (c.persist /\ ~stored_equal)
                /\ ~c.wrote => options' = options
                /\ c.wrote =>
                     /\ DOMAIN options' = DOMAIN options \cup {OPTIONS_AUTONOMY_PAUSED}
                     /\ options'[OPTIONS_AUTONOMY_PAUSED] = c.p
                     /\ \A k \in DOMAIN options \ {OPTIONS_AUTONOMY_PAUSED} :
                            options'[k] = options[k]
        ELSE options' = options ]_vars

\* a persisting call that changed the in-memory value found the stored value
\* already equal and wrote nothing
C4_Witness ==
    /\ ev.op = "set_paused.call"
    /\ ev.call.persist
    /\ ev.call.state_changed
    /\ ~ev.call.wrote
    /\ options[OPTIONS_DEBUG]



\* C5: a forward whose HTTP call completed fires exactly one update_forwarded
\* audit event, carrying the entry id, the identifier, the domain and the
\* HTTP outcome as its success flag (with the error text on failure), and
\* calls exactly one of record_success() (on success) and
\* record_failure("event_forward", message) (on a communication error).
C5_ForwardAuditOnce ==
    (ev.op \in {"forward.complete", "forward.notify_return"} /\ ev.done) =>
        /\ ev.audits = << [entry_id |-> ENTRY_ID,
                           entity_id |-> ev.payload.entity_id,
                           domain |-> ev.payload.domain,
                           success |-> ev.ok,
                           error |-> IF ev.ok THEN None ELSE ClientErrorText] >>
        /\ IF ev.ok
           THEN ev.successes = 1 /\ ev.failures = <<>>
           ELSE ev.successes = 0 /\ ev.failures = << <<"event_forward", ClientErrorText>> >>

\* The same, for every forward that did not end in a notification call that raised.
C5_UnlessNotificationRaised ==
    (ev.op \in {"forward.complete", "forward.notify_return"} /\ ev.done /\ ~ev.raised) =>
        /\ ev.audits = << forward_audit(ev.payload, ev.ok) >>
        /\ ev.successes + Len(ev.failures) = 1

\* C6: a state-change event delivered while the forwarder is not paused
\* creates exactly one forward when its identifier is present and allowed by
\* the filter, and none when the identifier is missing or not allowed; an
\* event delivered while the forwarder is paused creates none. The delivery
\* itself fires no audit event: only a forward does.
C6_ForwardPerAllowedEvent ==
    [][ ev'.op = "state_change" =>
          LET e == ev'.event
              missing == ~e.has_id \/ e.entity_id = <<>>
          IN IF ~f_paused /\ ~missing /\ allows(filters, e.entity_id)
             THEN tasks' = tasks (+) SetToBag({[kind |-> "forward", pc |-> "posting",
                                   payload |-> [entity_id |-> e.entity_id,
                                                domain |-> split_first(e.entity_id, ".")]]})
             ELSE tasks' = tasks ]_vars

\* an event for "A.X" was forwarded under the exposure list ["a.x"], while an
\* earlier forward was still in flight
C6_Witness ==
    /\ ev.op = "state_change"
    /\ ev.dispatched
    /\ ev.event.entity_id = <<"A", ".", "X">>
    /\ filters.domains = {}
    /\ BagCardinality(tasks) = 2

\* C7: a forwarder whose compiled filter has no entities and no domains holds
\* no subscription after any sequence of setup, shutdown and set_paused
\* calls, has no forward in flight and would forward no event.
C7_EmptyFilterNeverSubscribes ==
    filter_empty =>
        /\ f_unsubscribe = None
        /\ hostSubs = 0
        /\ \A t \in BagToSet(tasks) : t.kind # "forward"
        /\ \A e \in EventIds : ~handle_state_change(e, Fwd).dispatch

\* a paused forwarder with an empty filter was resumed and stayed unsubscribed
C7_Witness ==
    /\ filter_empty
    /\ ev.op = "exposure.set_paused"
    /\ ev.was
    /\ ~ev.p
    /\ ~f_paused
    /\ f_unsubscribe = None

\* C11: every record_failure(source, message) call leaves last_source = source
\* and last_failure = message and notifies every registered listener once, in
\* order, whether the new count is below, at or above the threshold and
\* whether or not a notification is active.
C11_FailureRecordsAndNotifies ==
    ev.op = "record_failure" =>
        /\ diagnostics.last_source = ev.source
        /\ diagnostics.last_failure = ev.message
        /\ ev.notified = listeners

\* a record_failure past the threshold, with the notification already active,
\* recorded a source other than the previous one and notified two listeners
C11_Witness ==
    /\ ev.op = "record_failure"
    /\ ~ev.create
    /\ notification_active
    /\ diagnostics.consecutive_failures > failure_threshold
    /\ diagnostics.last_source = "action_result"
    /\ Len(listeners) = 2
    /\ ev.notified = listeners

\* C12: an admitted invoke whose executor call raised fires exactly one
\* action_executed audit with success=false and the error text, posts exactly
\* one action_result report, and ends by returning success=false with the
\* error text and no result: it never raises to its caller.
C12_ExecutorErrorContained ==
    /\ (ev.op = "invoke.exec_done" /\ ~ev.task.success) =>
           /\ ev.task.error_message \in {o.message : o \in ExecOutcomes} \ {None}
           /\ ev.task.audits =
                  << [entry_id |-> ENTRY_ID, domain |-> ev.task.data.domain,
                      service |-> ev.task.data.service,
                      correlation_id |-> ev.task.data.correlation_id,
                      success |-> FALSE, error |-> ev.task.error_message] >>
           /\ Len(ev.task.reports) = 1
           /\ ev.task.reports[1].type = "action_result"
           /\ ~ev.task.reports[1].success
    /\ (ev.op \in {"invoke.report_done", "invoke.notify_return"}
          /\ ev.done /\ ~ev.task.success) =>
           /\ ev.returned
           /\ ~ev.raised
           /\ ~ev.response.success
           /\ ev.response.error = ev.task.error_message
           /\ ev.response.result = None

\* The same, for every invoke that did not end in a notification call that raised.
C12_UnlessNotificationRaised ==
    /\ (ev.op = "invoke.exec_done" /\ ~ev.task.success) =>
           /\ Len(ev.task.audits) = 1
           /\ ~ev.task.audits[1].success
           /\ ev.task.audits[1].error = ev.task.error_message
           /\ Len(ev.task.reports) = 1
    /\ (ev.op \in {"invoke.report_done", "invoke.notify_return"}
          /\ ev.done /\ ~ev.task.success /\ ~ev.raised) =>
           /\ ev.returned
           /\ ev.response = [success |-> FALSE, result |-> None,
                             error |-> ev.task.error_message,
                             correlation_id |-> ev.response.correlation_id]

\* C13: an invoke whose report post completed returns the success flag, result
\* and error the executor outcome determined, whatever the post did, after
\* exactly one record_success() when the post succeeded and exactly one
\* record_failure("action_result", message) when it failed.
C13_ReportOutcomeIndependent ==
    (ev.op \in {"invoke.report_done", "invoke.notify_return"} /\ ev.done) =>
        /\ ev.returned
        /\ ev.response.success = ev.task.success
        /\ ev.response.result = ev.task.result
        /\ ev.response.error = ev.task.error_message
        /\ IF ev.ok
           THEN ev.successes = 1 /\ ev.failures = <<>>
           ELSE ev.successes = 0 /\ ev.failures = << <<"action_result", ClientErrorText>> >>

\* The same, for every invoke that did not end in a notification call that raised.
C13_UnlessNotificationRaised ==
    (ev.op \in {"invoke.report_done", "invoke.notify_return"} /\ ev.done /\ ~ev.raised) =>
        /\ ev.returned
        /\ ev.response.success = ev.task.success
        /\ ev.response.result = ev.task.result
        /\ ev.response.error = ev.task.error_message
        /\ ev.successes + Len(ev.failures) = 1
        /\ ev.ok <=> ev.successes = 1

\* C14: an invoke call whose entry_id, domain or service is missing, empty or
\* not a string is rejected with the validation error, also while the
\* controller is paused, and starts no executor call, fires no audit, posts no
\* report and changes nothing of the controller, the forwarder or the stored
\* options.
C14_ValidationFirst ==
    [][ (/\ ev'.op = "invoke.call"
         /\ \E k \in {"entry_id", "domain", "service"} :
                ~ev'.data[k].isstr \/ ev'.data[k].v = "")
        => /\ ~ev'.admitted
           /\ ev'.error \in {"Service data must include a non-empty entry_id",
                             "Service data must include a non-empty domain",
                             "Service data must include a non-empty service"}
           /\ tasks' = tasks
           /\ UNCHANGED <<ctlVars, options, fwdVars, runtime, run>> ]_vars

\* a call with an empty service name was rejected by the validation while the
\* controller was paused and the entry loaded
C14_Witness ==
    /\ ev.op = "invoke.call"
    /\ ev.data.service = Str("")
    /\ ev.data.entry_id = Str(ENTRY_ID)
    /\ ~ev.admitted
    /\ ev.error = "Service data must include a non-empty service"
    /\ paused
    /\ runtime

C19_NotificationFailureContained ==
    (ev.op \in {"notify_return", "forward.notify_return", "invoke.notify_return"}) =>
        /\ ~ev.raised
        /\ ev.op = "invoke.notify_return" => ev.returned
        /\ ev.op = "forward.notify_return" => Len(ev.audits) = 1

C17_CallbackFailureContained ==
    (/\ ev.op \in {"set_paused.call", "set_paused.resume"}
     /\ ev.done
     /\ (ev.call.state_changed \/ ev.call.force_notify)) =>
        /\ ~ev.raised
        /\ ev.called = [i \in 1..Len(pause_callbacks) |-> <<pause_callbacks[i], ev.call.p>>]
        /\ ev.notified = listeners

\* The same, when no registered pause callback returns a coroutine that raises.
C17_UnlessCoroutineRaised ==
    (/\ ev.op \in {"set_paused.call", "set_paused.resume"}
     /\ ev.done
     /\ (ev.call.state_changed \/ ev.call.force_notify)
     /\ \A i \in 1..Len(pause_callbacks) : pause_callbacks[i] \notin RaisingCoroutineCallbacks) =>
        /\ ~ev.raised
        /\ ev.called = [i \in 1..Len(pause_callbacks) |-> <<pause_callbacks[i], ev.call.p>>]
        /\ ev.notified = listeners

\* C18: whenever set_paused, record_success or record_failure notifies the
\* listeners, every registered listener is invoked, once and in order, also
\* after one that raised, and the operation keeps its state changes.
C18_ListenerFailureContained ==
    [][ /\ ev'.op = "record_failure"
           => /\ ev'.notified = listeners
              /\ diagnostics'.consecutive_failures = diagnostics.consecutive_failures + 1
              /\ diagnostics'.last_source = ev'.source
              /\ diagnostics'.last_failure = ev'.message
        /\ (/\ ev'.op = "record_success"
            /\ (diagnostics.consecutive_failures > 0 \/ notification_active))
           => /\ ev'.notified = listeners
              /\ diagnostics' = NoDiagnostics
              /\ ~notification_active'
        /\ (/\ ev'.op = "set_paused.call"
            /\ ev'.done
            /\ ~ev'.raised
            /\ (ev'.call.state_changed \/ ev'.call.force_notify))
           => /\ ev'.notified = listeners
              /\ paused' = ev'.call.p ]_vars

\* set_paused notified a listener that raises and then one that does not
C18_Witness ==
    /\ ev.op = "set_paused.call"
    /\ ev.done
    /\ listeners = <<"L2", "L1">>
    /\ ev.notified = <<"L2", "L1">>
    /\ "L2" \in RaisingListeners
    /\ paused = ev.call.p

\* C20: record_success and record_failure (and the return of the notification
\* call) leave paused, the pause callbacks, the forwarder and the stored
\* options as they are and start no set_paused call, however many failures
\* there are; set_paused leaves the diagnostics and notification_active as
\* they are.
C20_HealthAndPauseIndependent ==
    [][ /\ ev'.op \in {"record_success", "record_failure", "notify_return"}
           => /\ paused' = paused
              /\ pause_callbacks' = pause_callbacks
              /\ options' = options
              /\ UNCHANGED fwdVars
              /\ \A t \in BagToSet(tasks') : t.kind # "set_paused"
        /\ ev'.op \in {"set_paused.call", "set_paused.resume"}
           => /\ diagnostics' = diagnostics
              /\ notification_active' = notification_active
              /\ run' = run ]_vars

\* a record_failure past the threshold left the controller unpaused, with a
\* pause callback registered
C20_Witness ==
    /\ ev.op = "record_failure"
    /\ diagnostics.consecutive_failures > failure_threshold
    /\ notification_active
    /\ ~paused
    /\ pause_callbacks # <<>>

\* C21: the compiled filter allows an identifier exactly when some pattern of
\* the list, trimmed and lower-cased, is not empty and either has a separator,
\* does not end in ".*" and equals the lower-cased identifier, or has no
\* separator and equals the lower-cased identifier's part before its first
\* separator, or ends in ".*" and equals that part once the ".*" is taken off.
C21_AllowsMatchesPatterns ==
    ev.op = "allows" =>
        LET e == lower(ev.entity_id)
            prefix == split_first(e, ".")
            n(i) == lower(strip(ev.exposure[i]))
        IN ev.result <=>
             \E i \in 1..Len(ev.exposure) :
                 /\ n(i) # <<>>
                 /\ \/ /\ contains(n(i), ".")
                       /\ ~endswith(n(i), <<".", "*">>)
                       /\ e = n(i)
                    \/ /\ ~contains(n(i), ".")
                       /\ prefix = n(i)
                    \/ /\ endswith(n(i), <<".", "*">>)
                       /\ prefix = SubSeq(n(i), 1, Len(n(i)) - 2)

\* the list [" A.X ", "B.* "] allows "a.x"; and the list [" "] allows nothing
C21_Witness ==
    /\ ev.op = "allows"
    /\ ev.exposure = << <<" ", "A", ".", "X", " ">>, <<"B", ".", "*", " ">> >>
    /\ ev.entity_id = <<"a", ".", "x">>
    /\ ev.result
    /\ filters = [entities |-> {<<"a", ".", "x">>}, domains |-> {<<"b">>}]

\* The registrations whose handle has not been called, in registration order.
C22_Registered(hs) ==
    LET keep == { h \in 1..Len(hs) : hs[h].calls = 0 }
        Rank(h) == Cardinality({ k \in keep : k < h })
    IN [i \in 1..Cardinality(keep) |->
            hs[CHOOSE h \in keep : Rank(h) = i - 1].callback]

\* C22: calling a handle that async_add_listener returned, once or several
\* times, takes exactly the registration it was returned for out of the
\* registry: the registry is always the registrations, in order, whose handle
\* has not been called.
C22_HandleRemovesItsRegistration ==
    listeners = C22_Registered(ListenerHandles)

\* what the code does keep when no callback is registered twice
C22_UnlessSameCallback ==
    (\A h, k \in 1..Len(ListenerHandles) :
        ListenerHandles[h].callback = ListenerHandles[k].callback => h = k)
    => listeners = C22_Registered(ListenerHandles)

\* C23: in every pause fan-out the callbacks are called in registration order,
\* each callback, asynchronous or not, has completed (returned, or raised)
\* before the next one is called, and every callback has completed before the
\* first listener is notified.
C23_FanOutOrder ==
    (ev.op \in {"set_paused.call", "set_paused.resume"} /\ ev.done) =>
        LET t == ev.trace
            n == Cardinality({ i \in 1..Len(t) : t[i][1] = "call" })
        IN /\ n <= Len(pause_callbacks)
           /\ 2 * n <= Len(t)
           /\ \A k \in 1..n :
                 /\ t[2 * k - 1] = <<"call", pause_callbacks[k]>>
                 /\ t[2 * k][1] \in {"done", "caught", "raised"}
                 /\ t[2 * k][2] = pause_callbacks[k]
           /\ \A i \in (2 * n + 1)..Len(t) :
                 /\ t[i][1] = "notify"
                 /\ n = Len(pause_callbacks)
                 /\ \A k \in 1..n : t[2 * k][1] # "raised"

\* the forwarder's asynchronous callback, then an observer callback, then
\* two listeners
C23_Witness ==
    /\ ev.op = "set_paused.call"
    /\ ev.done
    /\ pause_callbacks = <<ExposureCallback, "cb1">>
    /\ ev.trace = << <<"call", ExposureCallback>>, <<"done", ExposureCallback>>,
                     <<"call", "cb1">>, <<"done", "cb1">>,
                     <<"notify", "L1">>, <<"notify", "L2">> >>
    /\ f_paused = ev.call.p

\* C24: a set_paused call has assigned the in-memory paused value when its
\* persistence write begins: at the step that suspends the call in its write
\* the value is already the requested one, it stays so through every step
\* taken while the write is pending that is not a later set_paused call, and a
\* set_paused call nested in the write reads it as its previous value.
C24_PausedSetBeforeWrite ==
    [][ /\ ev'.op = "set_paused.call"
           => /\ paused' = ev'.call.p
              /\ ev'.call.was = paused
              /\ ev'.call.wrote => (~ev'.done /\ ev'.call \in BagToSet(tasks'))
        /\ (ev.op = "set_paused.call" /\ ~ev.done /\ ev'.op = "set_paused.call")
           => /\ ev'.call.was = ev.call.p
              /\ ev'.call.state_changed = (ev'.call.p # ev.call.p)
        /\ ev'.op # "set_paused.call" => paused' = paused ]_vars

\* a call nested in the pending write of another saw that call's value, and
\* is itself suspended in its write with its own value in memory
C24_Witness ==
    /\ ev.op = "set_paused.call"
    /\ ~ev.done
    /\ ev.call.was
    /\ ~ev.call.p
    /\ ~paused
    /\ \E t \in BagToSet(tasks) : t.p /\ ~t.was /\ t.wrote

\* C25: the forwarder's set_paused(true) called while it is active leaves it
\* without subscription; set_paused(false) called while it is paused leaves
\* it subscribed exactly when its filter is not empty; set_paused with the
\* value it holds changes neither the subscription nor the paused flag; and
\* no set_paused changes the filter.
C25_ForwarderSetPaused ==
    [][ ev'.op = "exposure.set_paused" =>
          /\ filters' = filters
          /\ (ev'.p /\ ~f_paused)
             => (f_paused' /\ f_unsubscribe' = None /\ hostSubs' = 0)
          /\ (~ev'.p /\ f_paused)
             => /\ ~f_paused'
                /\ (f_unsubscribe' # None) <=> ~filter_empty
                /\ hostSubs' = (IF filter_empty THEN 0 ELSE 1)
          /\ (ev'.p = f_paused)
             => /\ f_paused' = f_paused
                /\ f_unsubscribe' = f_unsubscribe
                /\ hostSubs' = hostSubs ]_vars

\* an active, subscribed forwarder was paused and dropped its subscription
C25_Witness ==
    /\ ev.op = "exposure.set_paused"
    /\ ev.p
    /\ ~ev.was
    /\ ev.subscribed
    /\ f_paused
    /\ f_unsubscribe = None
    /\ hostSubs = 0
    /\ ~filter_empty

\* C26: after any sequence of setup, shutdown and set_paused calls the host
\* holds one handler of the forwarder when the forwarder holds an unsubscribe
\* handle and none when it does not (no subscription is obtained over a held
\* one, and none is released twice or dropped unreleased); setup called while
\* subscribed and shutdown called while not subscribed change nothing.
C26_AtMostOneSubscription ==
    /\ [](hostSubs = (IF f_unsubscribe # None THEN 1 ELSE 0))
    /\ [][ /\ (ev'.op = "exposure.setup" /\ f_unsubscribe # None) => UNCHANGED fwdVars
           /\ (ev'.op = "exposure.shutdown" /\ f_unsubscribe = None) => UNCHANGED fwdVars
           /\ hostSubs' \in {hostSubs, hostSubs + 1, hostSubs - 1}
           /\ hostSubs' = hostSubs + 1 => (f_unsubscribe = None /\ f_unsubscribe' # None)
           /\ hostSubs' = hostSubs - 1 => (f_unsubscribe # None /\ f_unsubscribe' = None)
         ]_vars

\* setup was called on a forwarder that was subscribed already
C26_Witness ==
    /\ ev.op = "exposure.setup"
    /\ ev.subscribed
    /\ f_unsubscribe # None
    /\ hostSubs = 1

\* C27: the state-change handler returns with the forward it dispatched still
\* at its HTTP call: it records no outcome and fires no audit itself; a
\* further event can be delivered and dispatched while forwards are in flight;
\* any forward in flight can be the next to complete; and every forward that
\* ends has fired one audit of its own, with its identifier and its outcome.
C27_ConcurrentForwards ==
    /\ [](\A e \in EventIds : (hostSubs > 0 /\ CanSuspend) => ENABLED DeliverEvent(e))
    /\ [](\A t \in BagToSet(tasks) :
             (t.kind = "forward" /\ t.pc = "posting") => ENABLED ForwardComplete(t, TRUE))
    /\ [][ ev'.op = "state_change" =>
             /\ UNCHANGED <<ctlVars, fwdVars>>
             /\ ev'.dispatched =>
                   \E t \in BagToSet(tasks') :
                       /\ t.kind = "forward"
                       /\ t.pc = "posting"
                       /\ t.payload.entity_id = ev'.event.entity_id
                       /\ tasks' = tasks (+) SetToBag({t}) ]_vars
    /\ []((ev.op \in {"forward.complete", "forward.notify_return"} /\ ev.done)
            => ev.audits = << forward_audit(ev.payload, ev.ok) >>)

\* The same, the audit being asked only of a forward that did not end in a
\* notification call that raised.
C27_UnlessNotificationRaised ==
    /\ [](\A e \in EventIds : (hostSubs > 0 /\ CanSuspend) => ENABLED DeliverEvent(e))
    /\ [](\A t \in BagToSet(tasks) :
             (t.kind = "forward" /\ t.pc = "posting") => ENABLED ForwardComplete(t, TRUE))
    /\ [][ ev'.op = "state_change" =>
             /\ UNCHANGED <<ctlVars, fwdVars>>
             /\ ev'.dispatched =>
                   \E t \in BagToSet(tasks') :
                       /\ t.kind = "forward"
                       /\ t.pc = "posting"
                       /\ t.payload.entity_id = ev'.event.entity_id
                       /\ tasks' = tasks (+) SetToBag({t}) ]_vars
    /\ []((ev.op \in {"forward.complete", "forward.notify_return"} /\ ev.done /\ ~ev.raised)
            => ev.audits = << forward_audit(ev.payload, ev.ok) >>)

\* two forwards, of events that spelled the identifier differently, were in
\* flight and one completed, with its own audit, while the other was still at
\* its HTTP call
C27_OneCompletedOtherInFlight ==
    /\ ev.op = "forward.complete"
    /\ ev.ok
    /\ ev.payload.entity_id = <<"A", ".", "X">>
    /\ ev.audits = << forward_audit(ev.payload, TRUE) >>
    /\ ev.audits[1].entity_id = <<"A", ".", "X">>
    /\ \E t \in BagToSet(tasks) :
           t.kind = "forward" /\ t.pc = "posting" /\ t.payload.entity_id = <<"a", ".", "x">>

\* C28: shutdown returns with the forwards already dispatched still in
\* flight and untouched; every forward that ends, before or after a shutdown,
\* has fired its audit and made its one record_success or record_failure
\* call; and once shutdown has returned no delivered event is forwarded, the
\* forwarder holding no subscription.
C28_ShutdownLeavesForwards ==
    /\ [][ ev'.op = "exposure.shutdown" =>
             /\ tasks' = tasks
             /\ UNCHANGED ctlVars
             /\ f_unsubscribe' = None
             /\ hostSubs' = 0 ]_vars
    /\ []((ev.op \in {"forward.complete", "forward.notify_return"} /\ ev.done)
            => /\ ev.audits = << forward_audit(ev.payload, ev.ok) >>
               /\ ev.successes + Len(ev.failures) = 1)
    /\ [](run.shutdown => (hostSubs = 0 /\ f_unsubscribe = None))
    /\ [][ (run.shutdown /\ ev'.op = "state_change") => ~ev'.dispatched ]_vars

\* What the code does keep: shutdown leaves the forwards alone, a forward
\* that does not end in a notification call that raised fires its audit, and
\* a forwarder that was shut down stays unsubscribed until it is resumed or
\* set up again.
C28_UnlessResumedOrNotificationRaised ==
    /\ [][ ev'.op = "exposure.shutdown" =>
             /\ tasks' = tasks
             /\ UNCHANGED ctlVars
             /\ f_unsubscribe' = None
             /\ hostSubs' = 0 ]_vars
    /\ []((ev.op \in {"forward.complete", "forward.notify_return"} /\ ev.done /\ ~ev.raised)
            => /\ ev.audits = << forward_audit(ev.payload, ev.ok) >>
               /\ ev.successes + Len(ev.failures) = 1)
    /\ [][ (/\ run.shutdown
            /\ hostSubs = 0
            /\ ev'.op # "exposure.setup"
            /\ ~(ev'.op = "exposure.set_paused" /\ ~ev'.p))
           => hostSubs' = 0 ]_vars

\* a forward dispatched before the shutdown completed after it, with its audit
C28_ForwardOutlivesShutdown ==
    /\ run.shutdown
    /\ ev.op = "forward.complete"
    /\ ev.done
    /\ ev.audits = << forward_audit(ev.payload, ev.ok) >>
    /\ hostSubs = 0

\* an event delivered after the shutdown was forwarded: the forwarder, shut
\* down, was resumed
C28_ForwardedAfterShutdown ==
    /\ run.shutdown
    /\ ev.op = "state_change"
    /\ ev.dispatched

\* C29: notification_active goes from true to false only in a record_success
\* step: a record_failure step, a set_paused step and the return of the
\* notification call, normal or not, leave a raised flag raised.
C29_OnlySuccessClearsNotification ==
    [][ /\ (notification_active /\ ~notification_active') => ev'.op = "record_success"
        /\ (notification_active /\ ev'.op \in {"record_failure", "set_paused.call"})
           => notification_active' ]_vars

\* a record_success found the flag raised and cleared it
C29_Witness ==
    /\ ev.op = "record_success"
    /\ ev.was_active
    /\ ~notification_active
    /\ run.earlier

\* options.get(OPTIONS_AUTONOMY_PAUSED), an absent value counting as false
C30_Stored ==
    OPTIONS_AUTONOMY_PAUSED \in DOMAIN options /\ options[OPTIONS_AUTONOMY_PAUSED]

\* C30: when every set_paused call so far was made with persist=true and none
\* is in progress, the stored autonomy_paused value (absent counting as false)
\* is the paused value in memory, also after calls that overlapped at the
\* persistence write.
C30_StoredMatchesMemory ==
    tasks = EmptyBag => C30_Stored = paused

\* two calls overlapped at the write and the one made first was resumed last:
\* the stored value and the value in memory are both the later call's
C30_Witness ==
    /\ tasks = EmptyBag
    /\ ev.op = "set_paused.resume"
    /\ ev.call.wrote
    /\ ev.call.p
    /\ ~paused
    /\ OPTIONS_AUTONOMY_PAUSED \in DOMAIN options
    /\ ~options[OPTIONS_AUTONOMY_PAUSED]

\* C31: once every set_paused call made on the controller of a loaded entry
\* has completed, calls that overlapped at the persistence write included, the
\* forwarder's paused flag is the controller's paused value and the forwarder
\* is subscribed exactly when that value is false and the filter is not empty.
C31_ForwarderFollowsController ==
    (runtime /\ \A t \in BagToSet(tasks) : t.kind # "set_paused") =>
        /\ f_paused = paused
        /\ (f_unsubscribe # None) <=> (~paused /\ ~filter_empty)

\* two calls overlapped at the write, the one made first was resumed last, and
\* its fan-out left the forwarder with the value the later call had replaced
C31_StaleFanOut ==
    /\ runtime
    /\ tasks = EmptyBag
    /\ ev.op = "set_paused.resume"
    /\ ev.call.p
    /\ ev.called = << <<ExposureCallback, TRUE>> >>
    /\ ~paused
    /\ f_paused
    /\ f_unsubscribe = None

\* C32: no forward is dispatched for a state-change event delivered while the
\* controller's paused value is true, the time a set_paused(true) call spends
\* suspended in its persistence write, its pause callbacks not yet run,
\* included.
C32_NoForwardWhilePaused ==
    [][ (ev'.op = "state_change" /\ paused) => ~ev'.dispatched ]_vars

\* an event was forwarded while set_paused(true) was suspended in its write
C32_ForwardedDuringWrite ==
    /\ ev.op = "state_change"
    /\ ev.dispatched
    /\ paused
    /\ ~f_paused
    /\ \E t \in BagToSet(tasks) : t.kind = "set_paused" /\ t.p /\ t.pc = "writing"

\* C33: once shutdown has been called on a forwarder it holds no subscription
\* to the host event source, whatever set_paused calls are made on it later.
C33_ShutdownIsFinal ==
    run.shutdown => (f_unsubscribe = None /\ hostSubs = 0)

\* a forwarder that had been shut down was resumed and subscribed again
C33_ResubscribedAfterShutdown ==
    /\ run.shutdown
    /\ ev.op = "exposure.set_paused"
    /\ ~ev.p
    /\ ev.was
    /\ ~ev.subscribed
    /\ f_unsubscribe # None
    /\ hostSubs = 1

\* the same in the loaded entry: a set_paused(false) call was suspended in its
\* write when the entry was unloaded, and its fan-out, resumed after the
\* unload, subscribed the forwarder of the unloaded entry again
C33_ResubscribedAfterUnload ==
    /\ ~runtime
    /\ run.shutdown
    /\ ev.op = "set_paused.resume"
    /\ ~ev.call.p
    /\ ev.called = << <<ExposureCallback, FALSE>> >>
    /\ hostSubs = 1

\* C34: setting up the entry announces the stored paused value (absent
\* counting as false) through one forced fan-out, the forwarder's pause
\* callback being called once with that value, and writes nothing to storage;
\* when it has completed the forwarder is subscribed exactly when its filter
\* is not empty and the stored value is false.
C34_SetupAnnouncesStoredValue ==
    ev.op = "setup_entry" =>
        LET stored == OPTIONS_AUTONOMY_PAUSED \in DOMAIN ev.stored
                      /\ ev.stored[OPTIONS_AUTONOMY_PAUSED]
        IN /\ ev.called = << <<ExposureCallback, stored>> >>
           /\ options = ev.stored
           /\ paused = stored
           /\ f_paused = stored
           /\ (f_unsubscribe # None) <=> (~filter_empty /\ ~stored)
           /\ hostSubs = (IF ~filter_empty /\ ~stored THEN 1 ELSE 0)

\* an entry stored as paused, with a filter that is not empty, was reloaded:
\* its forwarder was told once and is not subscribed
C34_Witness ==
    /\ ev.op = "setup_entry"
    /\ ev.initial
    /\ OPTIONS_AUTONOMY_PAUSED \in DOMAIN options
    /\ options[OPTIONS_AUTONOMY_PAUSED]
    /\ ~filter_empty
    /\ ev.called = << <<ExposureCallback, TRUE>> >>
    /\ f_paused
    /\ f_unsubscribe = None
    /\ runtime

\* C35: unloading the entry removes its runtime record and calls the
\* forwarder's shutdown once; every invoke made afterwards that names the
\* entry is rejected with an error and starts nothing: no executor call, no
\* audit event and no upstream report.
C35_UnloadedEntryRejectsInvoke ==
    [][ /\ ev'.op = "unload_entry"
           => /\ ~runtime'
              /\ ev'.shutdown_calls = 1
              /\ f_unsubscribe' = None
              /\ hostSubs' = 0
              /\ tasks' = tasks
        /\ (~runtime /\ ev'.op = "invoke.call")
           => /\ ~ev'.admitted
              /\ ev'.error # None
              /\ tasks' = tasks
              /\ UNCHANGED <<ctlVars, options, fwdVars, runtime>> ]_vars

\* after the unload a valid invoke naming the entry was rejected: no
\* configuration for the entry
C35_Witness ==
    /\ ~runtime
    /\ run.shutdown
    /\ ev.op = "invoke.call"
    /\ ev.data = ValidRequest
    /\ ~ev.admitted
    /\ ev.error = NoEntryError
    /\ ~paused

\* C36: in every state between controller operations notification_active is
\* true exactly when consecutive_failures has reached failure_threshold, so
\* that a raised flag implies a positive count.
C36_FlagIffThresholdReached ==
    /\ notification_active <=> diagnostics.consecutive_failures >= failure_threshold
    /\ notification_active => diagnostics.consecutive_failures > 0

\* the failure that reached a threshold of 2 raised the flag
C36_Witness ==
    /\ ev.op = "record_failure"
    /\ ev.create
    /\ failure_threshold = 2
    /\ diagnostics.consecutive_failures = 2
    /\ notification_active

\* C37: in every controller state consecutive_failures is 0 exactly when
\* last_failure is null and exactly when last_source is null; a record_failure
\* call, from either source, leaves its two arguments as last_source and
\* last_failure, and they stay until the next record_failure or
\* record_success call.
C37_DiagnosticsConsistent ==
    /\ [](/\ diagnostics.consecutive_failures = 0 <=> diagnostics.last_failure = None
          /\ diagnostics.consecutive_failures = 0 <=> diagnostics.last_source = None)
    /\ [][ /\ ev'.op = "record_failure"
              => /\ diagnostics'.last_source = ev'.source
                 /\ diagnostics'.last_failure = ev'.message
                 /\ diagnostics'.consecutive_failures > 0
           /\ ev'.op \notin {"record_failure", "record_success"}
              => diagnostics' = diagnostics ]_vars

\* a failure of the action path followed failures and left its own arguments
C37_Witness ==
    /\ ev.op = "record_failure"
    /\ ev.source = "action_result"
    /\ diagnostics.consecutive_failures = 3
    /\ diagnostics.last_source = "action_result"
    /\ diagnostics.last_failure = "failure"

\* C38: after any sequence of setup, shutdown and set_paused calls on a
\* forwarder, a forwarder whose paused flag is true holds no subscription to
\* the host event source.
C38_PausedHoldsNoSubscription ==
    f_paused => (f_unsubscribe = None /\ hostSubs = 0)

\* setup was called on a paused forwarder and subscribed it
C38_SubscribedWhilePaused ==
    /\ ev.op = "exposure.setup"
    /\ ~ev.subscribed
    /\ f_paused
    /\ f_unsubscribe # None
    /\ hostSubs = 1

\* the part of an entry's runtime the claim speaks of
C39_Observed(rt) ==
    [paused |-> rt.autonomy.paused,
     consecutive_failures |-> rt.autonomy.diagnostics.consecutive_failures,
     notification_active |-> rt.autonomy.notification_active,
     subscribed |-> rt.exposure.unsubscribe # None]

\* C39: with two loaded entries, an invoke that names one of them is admitted
\* exactly when that entry's controller is not paused, whatever the other's
\* state; a step of one entry (set_paused, a forward, a recorded outcome, an
\* invoke) leaves the other entry's paused flag, failure counter,
\* notification flag and subscription as they were; and the notification ids
\* of the two entries differ, a recorded failure of one entry sending only
\* that entry's id.
C39_EntriesIsolated ==
    /\ [][ \A e \in EntryIds :
             (ev'.op # "init" /\ ev'.entry = e) =>
                 /\ \A o \in EntryIds \ {e} :
                        C39_Observed(runtime'[o]) = C39_Observed(runtime[o])
                 /\ ev'.op = "entry.invoke"
                    => (ev'.admitted <=> ~runtime[e].autonomy.paused) ]_vars
    /\ [](\A a, b \in EntryIds : a # b => notification_id(a) # notification_id(b))
    /\ [](ev.op \in {"entry.forward.complete", "entry.invoke.report"}
             => ev.sent \subseteq {notification_id(ev.entry)})

\* an invoke naming the first entry was admitted while the second entry was
\* paused and unsubscribed, with its failure notification raised
C39_Witness ==
    /\ ev.op = "entry.invoke"
    /\ ev.entry = ENTRY_ID
    /\ ev.admitted
    /\ ~runtime[ENTRY_ID].autonomy.paused
    /\ runtime[ENTRY_ID].autonomy.diagnostics.consecutive_failures = 0
    /\ runtime[ENTRY_ID].exposure.unsubscribe # None
    /\ runtime[OTHER_ENTRY_ID].autonomy.paused
    /\ runtime[OTHER_ENTRY_ID].autonomy.notification_active
    /\ runtime[OTHER_ENTRY_ID].exposure.unsubscribe = None

====
